---- MODULE Spec2Model ----
(***************************************************************************)
(* The scrobble delivery queue of vinylscrobbles: LastFMScrobbler          *)
(* (src/src/lastfm_scrobbler.py) over the scrobble_queue and               *)
(* scrobble_history tables of DatabaseManager (src/src/database.py).       *)
(*                                                                         *)
(* Threads: producers that call queue_scrobble, a controller that calls    *)
(* start_scrobble_processor / stop_scrobble_processor, and the drain       *)
(* threads running _scrobble_loop.  Every DatabaseManager method is one    *)
(* atomic step (it runs under DatabaseManager._lock); a method of          *)
(* LastFMScrobbler that makes several store calls is several steps where   *)
(* another thread can observe the difference.                              *)
(***************************************************************************)
EXTENDS Integers, Sequences, FiniteSets, TLC

\* ------------------------------------------------------------------ bounds
\* Configuration values, scaled down (defaults 1000, 5 and 30).
max_queue_size == 1
max_retries == 1
min_play_time == 2
\* Rows ever inserted into scrobble_queue (AUTOINCREMENT ids 1..MaxEntries).
MaxEntries == 2
\* Last.fm error codes 0..MaxErrorCode, for the classification of sink errors.
MaxErrorCode == 29
\* Store operations that raise, over a whole behaviour.
MaxStoreFailures == 1
\* The same, where the drain loop is followed through its except clause.
MaxDrainFailures == 2
MaxFieldLen == 2
\* Readings of the wall clock int(time.time()): 0..MaxTime.
MaxTime == 4
\* duplicate_detection.time_window, in seconds (default 900).
time_window == 2
\* duplicate_detection.similarity_threshold, in hundredths (default 0.9).
similarity_threshold == 90
\* History rows beyond which the model records no further delivery.
MaxHistory == 1
\* Rows of duplicate_cache beyond which add_track is called only for a
\* fingerprint already cached.
MaxCacheRows == 1
\* Length of the strings given to _normalize_string.
MaxTextLen == 4
\* Calls of _normalize_string on its own result, the first included.
MaxPasses == 2
\* Variations of spelling between the two results whose fingerprints are
\* compared.
MaxVariations == 2
\* Recognitions of one play the pipeline hands to queue_scrobble.
MaxEnqueued == 2
\* Store operations called by the threads of one run.
MaxCalls == 3
\* The audio settings, in ticks: the length of a chunk, the silence that
\* ends a recording, the shortest recording handed on, the longest
\* recording, and the pause after a track before the next may start.
ChunkLen == 1
silence_duration == 2
min_track_length == 4
max_recording_duration == 6
debounce == 2
\* The longest time from one processed chunk to the next (a read that had to
\* be retried), the chunks of one run and the redundant start requests.
MaxGap == 3
MaxChunks == 7
MaxRequests == 1

\* ------------------------------------------------------- program constants
\* _process_scrobble_queue: get_scrobble_queue(limit=50)
BatchLimit == 50
\* clear_queue: "get_scrobble_queue(limit=1000)"
ClearLimit == 1000
\* _check_similar_tracks: "get_recent_scrobbles(limit=100)"
RecentLimit == 100

Producers == {"p1", "p2"}
Workers == {"w1", "w2"}
\* Threads calling store operations, and the DatabaseManager objects over
\* the one database file: the pipeline's and the web interface's.
Threads == {"t1", "t2", "t3"}
Managers == {"shared", "web"}
NoOp ==
    [name |-> "none", id |-> 0, via |-> "shared", value |-> << >>,
     raised |-> FALSE]
\* Row ids of scrobble_queue: those queue_scrobble assigns, and those of a
\* persisted queue one row longer than a batch.
Ids == 1..(BatchLimit + 1)

\* Optional[int]: the empty set is None, {d} is the value d.
None == {}
Some(d) == {d}

\* ------------------------------------------------------------------ inputs
\* RecognitionResult values handed to queue_scrobble.  Confidences are in
\* hundredths: 85 is 0.85, and the 100 of the drain loop is its 1.0.
Recognition(ok, artist, title, duration) ==
    [success |-> ok, artist |-> artist, title |-> title, album |-> "Album",
     duration |-> duration, provider |-> "audd", confidence |-> 85]

Results ==
    { Recognition(TRUE, "Artist", "Title", None),
      Recognition(TRUE, "Artist", "Title", Some(0)),
      Recognition(TRUE, "Artist", "Title", Some(min_play_time - 1)),
      Recognition(FALSE, "", "", None),
      Recognition(TRUE, "", "Title", None),
      Recognition(TRUE, "Artist", "", None) }

\* A row of scrobble_queue as get_scrobble_queue returns it (ScrobbleEntry).
ScrobbleEntry(id, artist, title, album, duration, created_at) ==
    [id |-> id, artist |-> artist, title |-> title, album |-> album,
     duration |-> duration, retry_count |-> 0, created_at |-> created_at]

\* Rows a database file can hold when the scrobbler is constructed: the
\* table accepts any NOT NULL text, the empty string included.
InitialQueues ==
    { << >>,
      << ScrobbleEntry(1, "", "Title", "Album", None, 0) >>,
      << ScrobbleEntry(1, "Artist", "", "Album", None, 0) >> }

\* What the sink (network.get_track + network.scrobble) does with one call:
\* it returns, raises pylast.WSError with an error_code (or without one), or
\* raises any other exception.
Returned == [kind |-> "ok", code |-> None]
WSError(code) == [kind |-> "WSError", code |-> code]
OtherException == [kind |-> "Exception", code |-> None]
NoCall == [kind |-> "nocall", code |-> None]

\* One outcome of each class, for the specifications of the whole queue.
SinkOutcomes ==
    { Returned, WSError(Some(4)), OtherException }

\* Every outcome, for the specification of the classification.
AllSinkOutcomes ==
    { Returned, OtherException, WSError(None) }
        \cup { WSError(Some(c)) : c \in 0..MaxErrorCode }

\* The queue a database file holds after one accepted queue_scrobble.
PersistedQueues ==
    { << ScrobbleEntry(1, "Artist", "Title", "Album", None, 0) >> }

\* A persisted queue of n valid rows enqueued within one second.
LongQueue(n) ==
    [i \in 1..n |-> ScrobbleEntry(i, "Artist", "Title", "Album", None, 0)]

\* Two rows of which the second was enqueued after the clock had been set
\* back by a second (created_at is the clock reading at the insert).
SetBackQueue ==
    << ScrobbleEntry(1, "Artist", "Title", "Album", None, 1),
       ScrobbleEntry(2, "Artist", "Title", "Album", None, 0) >>

\* Database files written under a larger max_queue_size: one row, one row
\* more than a batch, and SetBackQueue.
FifoQueues == { LongQueue(1), LongQueue(BatchLimit + 1), SetBackQueue }

VARIABLES
    queue,           \* scrobble_queue rows, in rowid order
    nextId,          \* the next AUTOINCREMENT id
    history,         \* scrobble_history rows, in insertion order
    stats,           \* LastFMScrobbler.stats
    available,       \* is_available()
    running,         \* LastFMScrobbler._running
    scrobble_thread, \* LastFMScrobbler._scrobble_thread
    wpc,             \* each drain thread's position
    batch,           \* each drain thread's queue_entries still to process
    result,          \* each drain thread's ScrobbleResult for the head of batch
    ppc,             \* each producer's position in queue_scrobble
    parg,            \* the recognition_result of a producer's call in progress
    pret,            \* the return of queue_scrobble, in the step that returns
    storeFailures,   \* store operations that raised so far
    storeBudget,     \* the store operations that may raise in this run
    now,             \* the wall clock, int(time.time())
    enabled,         \* DuplicateDetector.enabled
    duplicate_cache, \* duplicate_cache rows, one per fingerprint
    dpc,             \* the detector caller's position
    darg,            \* the call of the detector in progress
    dcheck,          \* the return of is_duplicate or add_track, in its step
    replaced,        \* history variable: the rows the insert of this step replaced
    given,           \* a string given to _normalize_string
    normalized,      \* what _normalize_string returned for given, and for that
    texts,           \* a result and a variant spelling of it
    prints,          \* the fingerprints of the two results of texts
    pipeline,        \* the recognition being handled, and those enqueued
    store,           \* the threads inside DatabaseManager operations
    segmenter,       \* the AudioProcessor's recording state
    clearing,        \* the call of clear_queue in progress, and its return
    inserted,        \* history variable: the row and recognition behind each id
    log,             \* history variable: sink outcomes per id, in order
    drainRemoved,    \* history variable: ids whose row the drain loop deleted
    dropCounted,     \* history variable: ids counted in stats at their drop
    overlapped,      \* history variable: two drain threads were alive at once
    afterStop        \* history variable: a queue update ran with _running False

vars == << queue, nextId, history, stats, available, running, scrobble_thread,
           wpc, batch, result, ppc, parg, pret, storeFailures, now,
           enabled, duplicate_cache, dpc, darg, dcheck, replaced,
           given, normalized, texts, prints, pipeline, store, segmenter,
           storeBudget, clearing, inserted, log, drainRemoved, dropCounted, overlapped, afterStop >>

dbVars == << queue, nextId, history >>
workerVars == << wpc, batch, result >>
producerVars == << ppc, parg >>
detectorVars == << enabled, duplicate_cache, dpc, darg, dcheck, replaced >>
textVars == << given, normalized, texts, prints >>
\* What the scrobbler's operations leave alone.
outsideQueue ==
    << now, detectorVars, textVars, pipeline, store, segmenter, storeBudget,
       clearing >>
ghostVars == << inserted, log, drainRemoved, dropCounted, overlapped,
               afterStop >>

\* ----------------------------------------------------------------- helpers
QueueIds(q) == { q[i].id : i \in DOMAIN q }

Min(a, b) == IF a < b THEN a ELSE b

\* DatabaseManager.get_queue_size
get_queue_size(q) == Len(q)

\* ORDER BY created_at ASC; rows of one second come out in rowid order (the
\* scan runs over idx_scrobble_queue_created_at, whose entries are ordered
\* by created_at, then rowid).
CreatedBefore(a, b) ==
    \/ a.created_at < b.created_at
    \/ a.created_at = b.created_at /\ a.id < b.id

\* get_scrobble_queue with "LIMIT 0": a read that returns no row.
get_scrobble_queue_no_row(q, limit) == SubSeq(SortSeq(q, CreatedBefore), 1, 0)

\* DatabaseManager.get_scrobble_queue
get_scrobble_queue(q, limit) ==
    SubSeq(SortSeq(q, CreatedBefore), 1, Min(limit, Len(q)))

\* DatabaseManager.remove_from_scrobble_queue
remove_from_scrobble_queue(q, id) == SelectSeq(q, LAMBDA e : e.id # id)

\* DatabaseManager.increment_retry_count
increment_retry_count(q, id) ==
    [i \in DOMAIN q |->
        IF q[i].id = id THEN [q[i] EXCEPT !.retry_count = @ + 1] ELSE q[i]]

\* DatabaseManager.add_to_history
add_to_history(h, entry, provider, confidence) ==
    Append(h, [entry_id |-> entry.id, artist |-> entry.artist,
               title |-> entry.title, album |-> entry.album,
               duration |-> entry.duration, id |-> Len(h) + 1,
               scrobbled_at |-> now,
               recognition_provider |-> provider,
               recognition_confidence |-> confidence])

NoArg == [success |-> FALSE]
\* checked: the call got as far as the capacity check.
NoReturn == [caller |-> "none", value |-> "none", checked |-> FALSE]
Return(p, v, checked) == [caller |-> p, value |-> v, checked |-> checked]
NoResult == [success |-> FALSE, should_retry |-> FALSE, exc |-> NoCall]

NoRow == [known |-> FALSE]
RowOf(e, r) ==
    [known |-> TRUE, artist |-> e.artist, title |-> e.title, album |-> e.album,
     duration |-> e.duration, provider |-> r.provider, confidence |-> r.confidence]

\* RecognitionResult as the detector reads it; artist, title and album are
\* sequences of one-character strings, album None read as ''.
DetectorResult(success, artist, title, album, duration) ==
    [success |-> success, artist |-> artist, title |-> title, album |-> album,
     duration |-> duration, provider |-> "audd", confidence |-> 85]

\* DuplicateCheck
DuplicateCheck(is_duplicate, confidence, time_since_last, similar_track, fingerprint) ==
    [is_duplicate |-> is_duplicate, confidence |-> confidence,
     time_since_last |-> time_since_last, similar_track |-> similar_track,
     fingerprint |-> fingerprint]

NoDetectorArg ==
    [result |-> DetectorResult(FALSE, << >>, << >>, << >>, None),
     fingerprint |-> << >>, timestamp |-> 0]
\* outcome: "returned" or "raised"; value is the DuplicateCheck of
\* is_duplicate, added the bool of add_track.
NoCheck ==
    [op |-> "none", input |-> NoDetectorArg.result, outcome |-> "none",
     value |-> DuplicateCheck(FALSE, 0, None, None, None), added |-> FALSE]

\* pc: where the pipeline is with the recognition `result`, which
\* is_duplicate answered at `at`; enqueued: the fingerprints handed to
\* queue_scrobble, with the time of their answer.
NoPipeline ==
    [pc |-> "idle", result |-> NoDetectorArg.result, at |-> 0,
     enqueued |-> << >>]

\* No thread is inside a store operation: each manager's lock is free and
\* nothing has returned.
NoStore ==
    [pc |-> [t \in Threads |-> "idle"], op |-> [t \in Threads |-> NoOp],
     lock |-> [m \in Managers |-> "free"], returned |-> << >>]

\* The AudioProcessor after construction: Quiet, no previous track.
\* clock: the time of the chunk processed last, gap: the time since the one
\* before it; fed, emitted, opened, closed, requests and event are history:
\* the chunks processed, the recordings handed to the recognizer, the
\* sessions opened and ended, the redundant start requests, and what the
\* last step did.
NoSegmenter ==
    [is_recording |-> FALSE, current_recording |-> << >>,
     music_start_time |-> 0, last_voiced_time |-> 0,
     last_track_end_time |-> None, clock |-> 0, gap |-> 0, stopped |-> FALSE,
     fed |-> << >>, emitted |-> << >>, opened |-> 0, closed |-> 0,
     requests |-> 0, event |-> << "none", "none" >>]

\* varied: the variations applied so far; edges: the characters put at an
\* end of a field.
NoTexts ==
    [base |-> NoDetectorArg.result, variant |-> NoDetectorArg.result,
     varied |-> 0, edges |-> {}]

\* clear_queue: its position, the entries it read and has still to remove,
\* its count; removed is a history field, the rows its deletes took away.
NoClearing == [pc |-> "idle", entries |-> << >>, count |-> 0, removed |-> 0]

\* The state after construction over a database file holding one of `queues`,
\* one of `histories` and one of `caches`, with the wall clock at t0.
InitStateAllowing(queues, histories, caches, switches, t0, failures) ==
    /\ storeBudget = failures
    /\ clearing = NoClearing
    /\ queue \in queues
    /\ now = t0
    /\ nextId = Len(queue) + 1
    /\ history \in histories
    /\ enabled \in switches
    /\ duplicate_cache \in caches
    /\ dpc = "idle"
    /\ darg = NoDetectorArg
    /\ dcheck = NoCheck
    /\ replaced = {}
    /\ pipeline = NoPipeline
    /\ store = NoStore
    /\ segmenter = NoSegmenter
    /\ stats = [scrobbles_attempted |-> 0, scrobbles_successful |-> 0,
                scrobbles_failed |-> 0, queue_processed |-> 0,
                network_errors |-> 0]
    /\ available \in BOOLEAN
    /\ running = FALSE
    /\ scrobble_thread = "none"
    /\ wpc = [w \in Workers |-> "none"]
    /\ batch = [w \in Workers |-> << >>]
    /\ result = [w \in Workers |-> NoResult]
    /\ ppc = [p \in Producers |-> "idle"]
    /\ parg = [p \in Producers |-> NoArg]
    /\ pret = NoReturn
    /\ storeFailures = 0
    /\ inserted = [id \in Ids |->
                     IF id \in QueueIds(queue)
                     THEN RowOf(queue[id], [provider |-> "audd", confidence |-> 85])
                     ELSE NoRow]
    /\ log = [id \in Ids |-> << >>]
    /\ drainRemoved = {}
    /\ dropCounted = {}
    /\ overlapped = FALSE
    /\ afterStop = FALSE

InitState(queues, histories, caches, switches, t0) ==
    InitStateAllowing(queues, histories, caches, switches, t0, MaxStoreFailures)

\* No string is being normalized and no fingerprint compared.
NoTextGiven ==
    /\ given = << >>
    /\ normalized = << >>
    /\ texts = NoTexts
    /\ prints = << >>

InitWith(queues) ==
    InitState(queues, { << >> }, { {} }, { TRUE }, 0) /\ NoTextGiven

Init == InitWith(InitialQueues \cup PersistedQueues)

\* The wall clock moves to another reading of `times`: it ticks, or it is
\* set (time.time() is not monotonic).
ClockStep(times) ==
    /\ \E t \in times : t # now /\ now' = t
    /\ pret' = NoReturn
    /\ dcheck' = NoCheck
    /\ replaced' = {}
    /\ UNCHANGED << dbVars, stats, available, running, scrobble_thread,
                    workerVars, producerVars, storeFailures, ghostVars,
                    enabled, duplicate_cache, dpc, darg, textVars, store,
                    segmenter, storeBudget,
       clearing >>

\* ------------------------------------------------------------ queue_scrobble
\* The capacity check with > for >=.
QueueFullOffByOne(size) == size > max_queue_size

\* queue_scrobble: "if current_queue_size >= self.max_queue_size"
QueueFull(size) == size >= max_queue_size

\* Producers that passed the capacity check and have not inserted yet.
Inserting == { p \in Producers : ppc[p] = "insert" }

\* queue_scrobble up to the capacity check: the two argument checks, then
\* get_queue_size (outside any try: a store error reaches the caller).
QueueScrobbleCheck(p, r) ==
    /\ ppc[p] = "idle"
    /\ UNCHANGED outsideQueue
    /\ UNCHANGED << dbVars, stats, available, running, scrobble_thread,
                    workerVars, ghostVars >>
    /\ IF ~r.success \/ r.artist = "" \/ r.title = ""
       THEN /\ pret' = Return(p, "False", FALSE)
            /\ UNCHANGED << ppc, parg, storeFailures >>
       ELSE \/ /\ storeFailures < storeBudget
               /\ storeFailures' = storeFailures + 1
               /\ pret' = Return(p, "raised", FALSE)
               /\ UNCHANGED << ppc, parg >>
            \/ /\ QueueFull(get_queue_size(queue))
               /\ pret' = Return(p, "False", TRUE)
               /\ UNCHANGED << ppc, parg, storeFailures >>
            \/ /\ ~QueueFull(get_queue_size(queue))
               /\ nextId + Cardinality(Inserting) <= MaxEntries
               /\ ppc' = [ppc EXCEPT ![p] = "insert"]
               /\ parg' = [parg EXCEPT ![p] = r]
               /\ pret' = NoReturn
               /\ UNCHANGED storeFailures

\* queue_scrobble from "entry = ScrobbleEntry(...)" on: add_to_scrobble_queue
\* inside try/except.
QueueScrobbleInsert(p) ==
    /\ ppc[p] = "insert"
    /\ UNCHANGED outsideQueue
    /\ ppc' = [ppc EXCEPT ![p] = "idle"]
    /\ parg' = [parg EXCEPT ![p] = NoArg]
    /\ UNCHANGED << history, stats, available, running, scrobble_thread,
                    workerVars, log, drainRemoved, dropCounted, overlapped,
                    afterStop >>
    /\ \/ /\ storeFailures < storeBudget
          /\ storeFailures' = storeFailures + 1
          /\ pret' = Return(p, "False", TRUE)
          /\ UNCHANGED << queue, nextId, inserted >>
       \/ LET r == parg[p]
              e == ScrobbleEntry(nextId, r.artist, r.title, r.album, r.duration,
                                 now)
          IN  /\ queue' = Append(queue, e)
              /\ nextId' = nextId + 1
              /\ inserted' = [inserted EXCEPT ![nextId] = RowOf(e, r)]
              /\ pret' = Return(p, "True", TRUE)
              /\ UNCHANGED storeFailures

\* --------------------------------------------------- the scrobble processor
Alive(w) == wpc[w] \notin {"none", "dead"}

\* start_scrobble_processor.  Thread objects are named by the free slots of
\* `slots`; with every slot alive no further thread is started.
StartScrobbleProcessor(slots) ==
    /\ pret' = NoReturn
    /\ UNCHANGED outsideQueue
    /\ UNCHANGED << dbVars, stats, available, batch, result, producerVars,
                    storeFailures, inserted, log, drainRemoved, dropCounted,
                    afterStop >>
    /\ IF running \/ ~available
       THEN UNCHANGED << running, scrobble_thread, wpc, overlapped >>
       ELSE \E w \in slots :
              /\ ~Alive(w)
              /\ \A v \in slots : ~Alive(v) => (w = "w1" \/ v # "w1")
              /\ running' = TRUE
              /\ scrobble_thread' = w
              /\ wpc' = [wpc EXCEPT ![w] = "idle"]
              /\ overlapped' = (overlapped \/ \E v \in Workers : Alive(v))

\* stop_scrobble_processor: clears _running, then join(timeout=10.0) returns
\* whether or not the thread has exited.
StopScrobbleProcessor ==
    /\ pret' = NoReturn
    /\ UNCHANGED outsideQueue
    /\ running' = FALSE
    /\ UNCHANGED << dbVars, stats, available, scrobble_thread, workerVars,
                    producerVars, storeFailures, ghostVars >>

\* _attempt_scrobble: "if not entry.artist or not entry.title" and
\* "if entry.duration and entry.duration < self.min_play_time"
ValidationFails(entry) ==
    \/ entry.artist = ""
    \/ entry.title = ""
    \/ \E d \in entry.duration : d # 0 /\ d < min_play_time

\* _attempt_scrobble: the error codes after which should_retry is False
NoRetryCodes == {2, 3, 4, 5, 6, 7, 9, 10, 13, 26}

\* The classification with code 26 left out of the list.
ShouldRetryWithout26(exc) ==
    IF exc.kind = "WSError"
    THEN ~(\E c \in exc.code : c \in NoRetryCodes \ {26})
    ELSE TRUE

\* _attempt_scrobble: should_retry of the two except clauses.
\* getattr(e, 'error_code', None) not in [...] is True for None.
ShouldRetry(exc) ==
    IF exc.kind = "WSError"
    THEN ~(\E c \in exc.code : c \in NoRetryCodes)
    ELSE TRUE

\* _attempt_scrobble(entry), with `outcome` what the sink does if called.
AttemptScrobble(entry, outcome) ==
    IF ValidationFails(entry)
    THEN [success |-> FALSE, should_retry |-> FALSE, exc |-> NoCall]
    ELSE IF outcome.kind = "ok"
    THEN [success |-> TRUE, should_retry |-> FALSE, exc |-> outcome]
    ELSE [success |-> FALSE, should_retry |-> ShouldRetry(outcome), exc |-> outcome]

SinkCalled(res) == res.exc.kind # "nocall"

\* Transient / Terminal / delivered, for the history variable log.
OutcomeOf(res) ==
    IF res.success THEN "ok" ELSE IF res.should_retry THEN "transient" ELSE "terminal"

\* _scrobble_loop's "while self._running", then _process_scrobble_queue up to
\* the for loop; a thread at "idle" is in time.sleep or about to test _running.
ScrobbleLoopFetch(w) ==
    /\ pret' = NoReturn
    /\ UNCHANGED outsideQueue
    /\ wpc[w] = "idle"
    /\ UNCHANGED << queue, nextId, history, stats, available, running,
                    scrobble_thread, result, producerVars, ghostVars >>
    /\ IF ~running
       THEN /\ wpc' = [wpc EXCEPT ![w] = "dead"]
            /\ UNCHANGED << batch, storeFailures >>
       ELSE IF ~available
       THEN UNCHANGED << wpc, batch, storeFailures >>
       ELSE \/ /\ storeFailures < storeBudget
               /\ storeFailures' = storeFailures + 1
               /\ UNCHANGED << wpc, batch >>
            \/ LET queue_entries == get_scrobble_queue(queue, BatchLimit)
               IN  /\ batch' = [batch EXCEPT ![w] = queue_entries]
                   /\ wpc' = [wpc EXCEPT ![w] =
                                IF queue_entries = << >> THEN "idle" ELSE "entry"]
                   /\ UNCHANGED storeFailures

\* One turn of "for entry in queue_entries" up to the return of
\* _attempt_scrobble: the _running test, the validation and the sink call.
ProcessAttempt(w, outcomes) ==
    /\ pret' = NoReturn
    /\ UNCHANGED outsideQueue
    /\ wpc[w] = "entry"
    /\ UNCHANGED << dbVars, available, running, scrobble_thread, producerVars,
                    storeFailures, inserted, drainRemoved, dropCounted, overlapped,
                    afterStop >>
    /\ IF ~running
       THEN /\ batch' = [batch EXCEPT ![w] = << >>]
            /\ wpc' = [wpc EXCEPT ![w] = "idle"]
            /\ UNCHANGED << result, stats, log >>
       ELSE \E outcome \in outcomes :
              LET entry == Head(batch[w])
                  res == AttemptScrobble(entry, outcome)
              IN  /\ result' = [result EXCEPT ![w] = res]
                  /\ wpc' = [wpc EXCEPT ![w] = "settle"]
                  /\ stats' =
                       IF SinkCalled(res)
                       THEN [stats EXCEPT
                               !.scrobbles_attempted = @ + 1,
                               !.network_errors =
                                   IF res.exc.kind = "Exception" THEN @ + 1 ELSE @]
                       ELSE stats
                  /\ log' = IF SinkCalled(res)
                            THEN [log EXCEPT ![entry.id] = Append(@, OutcomeOf(res))]
                            ELSE log
                  /\ UNCHANGED batch

\* The retry test with <= for <: one retry too many.
RetryAllowedOneMore(res, entry) ==
    res.should_retry /\ entry.retry_count <= max_retries

\* The retry test counting the attempt just made: one retry too few.
RetryAllowedOneLess(res, entry) ==
    res.should_retry /\ entry.retry_count + 1 < max_retries

\* _process_scrobble_queue: "elif result.should_retry and
\* entry.retry_count < self.max_retries"
RetryAllowed(res, entry) == res.should_retry /\ entry.retry_count < max_retries

\* An exception in the body of the for loop ends the cycle: the loop
\* without its except clause.
HandlerEndingCycle(q, h, st, entry, fh, failures, removed) ==
    [queue |-> q, history |-> h, stats |-> st, raised |-> TRUE,
     failures |-> failures, removed |-> removed, counted |-> FALSE]

\* The except clause of the for loop: "if entry.retry_count < self.max_retries:
\* increment_retry_count"; fh: that store call raises, which ends the cycle.
Handler(q, h, st, entry, fh, failures, removed) ==
    IF entry.retry_count < max_retries
    THEN IF fh
         THEN [queue |-> q, history |-> h, stats |-> st, raised |-> TRUE,
               failures |-> failures + 1, removed |-> removed, counted |-> FALSE]
         ELSE [queue |-> increment_retry_count(q, entry.id), history |-> h,
               stats |-> st, raised |-> FALSE, failures |-> failures,
               removed |-> removed, counted |-> FALSE]
    ELSE [queue |-> q, history |-> h, stats |-> st, raised |-> FALSE,
          failures |-> failures, removed |-> removed, counted |-> FALSE]

\* The body of the for loop giving up the entry when _running has been
\* cleared since the attempt.
SettleEffectUnlessStopped(q, h, st, entry, res, f1, f2, fh) ==
    IF ~running
    THEN [queue |-> q, history |-> h, stats |-> st, raised |-> FALSE,
          failures |-> 0, removed |-> FALSE, counted |-> FALSE]
    ELSE IF f1
    THEN Handler(q, h, st, entry, fh, 1, FALSE)
    ELSE IF res.success /\ f2
    THEN Handler(remove_from_scrobble_queue(q, entry.id), h, st, entry, fh,
                 1, TRUE)
    ELSE IF res.success
    THEN [queue |-> remove_from_scrobble_queue(q, entry.id),
          history |-> add_to_history(h, entry, "lastfm", 100),
          stats |-> [st EXCEPT !.scrobbles_successful = @ + 1,
                               !.queue_processed = @ + 1],
          raised |-> FALSE, failures |-> 0, removed |-> TRUE, counted |-> FALSE]
    ELSE IF res.should_retry /\ entry.retry_count < max_retries
    THEN [queue |-> increment_retry_count(q, entry.id), history |-> h,
          stats |-> [st EXCEPT !.scrobbles_failed = @ + 1],
          raised |-> FALSE, failures |-> 0, removed |-> FALSE, counted |-> FALSE]
    ELSE [queue |-> remove_from_scrobble_queue(q, entry.id), history |-> h,
          stats |-> [st EXCEPT !.scrobbles_failed = @ + 1,
                               !.queue_processed = @ + 1],
          raised |-> FALSE, failures |-> 0, removed |-> TRUE, counted |-> TRUE]

\* The body of the for loop after _attempt_scrobble returned: the three
\* branches and the except clause.  f1, f2: the first, second store call of
\* the branch raises; fh: the store call of the except clause raises.
SettleEffect(q, h, st, entry, res, f1, f2, fh) ==
    IF res.success
    THEN IF f1
         THEN Handler(q, h, st, entry, fh, 1, FALSE)
         ELSE IF f2
         THEN Handler(remove_from_scrobble_queue(q, entry.id), h, st, entry, fh,
                      1, TRUE)
         ELSE [queue |-> remove_from_scrobble_queue(q, entry.id),
               history |-> add_to_history(h, entry, "lastfm", 100),
               stats |-> [st EXCEPT !.scrobbles_successful = @ + 1,
                                    !.queue_processed = @ + 1],
               raised |-> FALSE, failures |-> 0, removed |-> TRUE,
               counted |-> FALSE]
    ELSE IF RetryAllowed(res, entry)
    THEN IF f1
         THEN Handler(q, h, st, entry, fh, 1, FALSE)
         ELSE [queue |-> increment_retry_count(q, entry.id), history |-> h,
               stats |-> [st EXCEPT !.scrobbles_failed = @ + 1],
               raised |-> FALSE, failures |-> 0, removed |-> FALSE,
               counted |-> FALSE]
    ELSE IF f1
         THEN Handler(q, h, st, entry, fh, 1, FALSE)
         ELSE [queue |-> remove_from_scrobble_queue(q, entry.id), history |-> h,
               stats |-> [st EXCEPT !.scrobbles_failed = @ + 1,
                                    !.queue_processed = @ + 1],
               raised |-> FALSE, failures |-> 0, removed |-> TRUE,
               counted |-> TRUE]

\* One turn of the for loop from the return of _attempt_scrobble to its end.
\* An exception leaving the except clause leaves _process_scrobble_queue;
\* _scrobble_loop catches it and sleeps.
ProcessSettle(w) ==
    /\ pret' = NoReturn
    /\ UNCHANGED outsideQueue
    /\ wpc[w] = "settle"
    /\ \E f1, f2, fh \in BOOLEAN :
         LET entry == Head(batch[w])
             eff == SettleEffect(queue, history, stats, entry, result[w], f1, f2, fh)
             rest == IF eff.raised THEN << >> ELSE Tail(batch[w])
             gone == eff.removed /\ entry.id \in QueueIds(queue)
         IN  /\ storeFailures + eff.failures <= storeBudget
             /\ storeFailures' = storeFailures + eff.failures
             /\ queue' = eff.queue
             /\ history' = eff.history
             /\ stats' = eff.stats
             /\ batch' = [batch EXCEPT ![w] = rest]
             /\ wpc' = [wpc EXCEPT ![w] = IF rest = << >> THEN "idle" ELSE "entry"]
             /\ result' = [result EXCEPT ![w] = NoResult]
             /\ drainRemoved' = IF gone THEN drainRemoved \cup {entry.id}
                                ELSE drainRemoved
             /\ dropCounted' = IF eff.counted THEN dropCounted \cup {entry.id}
                               ELSE dropCounted
             /\ afterStop' = (afterStop \/ (~running /\ ~eff.raised))
    /\ UNCHANGED << nextId, available, running, scrobble_thread, producerVars,
                    inserted, log, overlapped >>

\* The queue with its producers and one drain thread at a time.
Next ==
    \/ \E p \in Producers, r \in Results : QueueScrobbleCheck(p, r)
    \/ \E p \in Producers : QueueScrobbleInsert(p)
    \/ StartScrobbleProcessor({"w1"})
    \/ StopScrobbleProcessor
    \/ \E w \in Workers : ScrobbleLoopFetch(w)
    \/ \E w \in Workers : ProcessAttempt(w, SinkOutcomes)
    \/ \E w \in Workers : ProcessSettle(w)

Spec == Init /\ [][Next]_vars

\* The drain of a persisted queue when the processor is stopped and started
\* again: the thread of the earlier start may still be alive.
InitRestart ==
    /\ InitWith(PersistedQueues)
    /\ available

NextRestart ==
    \/ StartScrobbleProcessor(Workers)
    \/ StopScrobbleProcessor
    \/ \E w \in Workers : ScrobbleLoopFetch(w)
    \/ \E w \in Workers : ProcessAttempt(w, SinkOutcomes)
    \/ \E w \in Workers : ProcessSettle(w)

SpecRestart == InitRestart /\ [][NextRestart]_vars

\* One drain thread over a persisted queue, the sink failing in every way.
NextClassify ==
    \/ StartScrobbleProcessor({"w1"})
    \/ \E w \in Workers : ScrobbleLoopFetch(w)
    \/ \E w \in Workers : ProcessAttempt(w, AllSinkOutcomes)
    \/ \E w \in Workers : ProcessSettle(w)

SpecClassify == InitRestart /\ [][NextClassify]_vars

\* ------------------------------------------------------ draining for good
\* A persisted entry whose retry_count has reached max_retries.
RetriedEntry ==
    [ScrobbleEntry(1, "Artist", "Title", "Album", None, 0)
       EXCEPT !.retry_count = max_retries]

\* The store goes on failing: the operations that may raise are counted
\* from 0 again.  No entry is submitted more than MaxCalls times before.
StoreKeepsFailing ==
    /\ storeBudget > 0
    /\ storeFailures = storeBudget
    /\ \A id \in Ids : Len(log[id]) < MaxCalls
    /\ storeFailures' = 0
    /\ pret' = NoReturn
    /\ UNCHANGED outsideQueue
    /\ UNCHANGED << dbVars, stats, available, running, scrobble_thread,
                    workerVars, producerVars, ghostVars >>

\* A queue longer than a batch with a store that works, or a queue of one
\* entry, fresh or retried, with a store that may fail.
InitLive ==
    /\ \/ InitStateAllowing({ LongQueue(BatchLimit + 1) }, { << >> }, { {} },
                            { TRUE }, 0, 0)
       \/ InitStateAllowing(PersistedQueues \cup { << RetriedEntry >> },
                            { << >> }, { {} }, { TRUE }, 0, MaxStoreFailures)
    /\ NoTextGiven
    /\ available

\* One drain thread that is never stopped.  Every call of the sink fails
\* for the entries of the long queue; the sink does as it likes with the
\* entry of the short ones.
NextLive ==
    \/ StartScrobbleProcessor({"w1"})
    \/ ScrobbleLoopFetch("w1")
    \/ ProcessAttempt("w1", IF storeBudget = 0 THEN { OtherException }
                            ELSE SinkOutcomes)
    \/ ProcessSettle("w1")
    \/ StoreKeepsFailing

\* The thread is scheduled: _scrobble_loop goes from one cycle to the next,
\* a cycle from one entry to the next.
DrainStep ==
    ScrobbleLoopFetch("w1") \/ ProcessSettle("w1")
      \/ ProcessAttempt("w1", IF storeBudget = 0 THEN { OtherException }
                              ELSE SinkOutcomes)

SpecLive == InitLive /\ [][NextLive]_vars /\ WF_vars(DrainStep)

\* ------------------------------------------------------------- clear_queue
\* What clear_queue leaves alone.
outsideClear ==
    << nextId, history, stats, available, running, scrobble_thread,
       workerVars, producerVars, pret, ghostVars, now, detectorVars, textVars,
       pipeline, store, segmenter, storeBudget >>

\* clear_queue up to the loop: "entries = get_scrobble_queue(limit=1000)",
\* which may raise; with nothing read it returns 0.
ClearQueueFetch ==
    /\ clearing.pc = "idle"
    /\ \/ /\ storeFailures < storeBudget
          /\ storeFailures' = storeFailures + 1
          /\ clearing' = [NoClearing EXCEPT !.pc = "raised"]
       \/ /\ clearing' =
               [NoClearing EXCEPT
                  !.pc = IF queue = << >> THEN "returned" ELSE "remove",
                  !.entries = get_scrobble_queue(queue, ClearLimit)]
          /\ UNCHANGED storeFailures
    /\ UNCHANGED << queue, outsideClear >>

\* One turn of "for entry in entries": remove_from_scrobble_queue, which may
\* raise, and "count += 1" when it deleted a row; after the last entry
\* clear_queue returns count.
ClearQueueRemove ==
    /\ clearing.pc = "remove"
    /\ \/ /\ storeFailures < storeBudget
          /\ storeFailures' = storeFailures + 1
          /\ clearing' = [clearing EXCEPT !.pc = "raised"]
          /\ UNCHANGED queue
       \/ LET entry == Head(clearing.entries)
              found == \E i \in DOMAIN queue : queue[i].id = entry.id
          IN  /\ queue' = remove_from_scrobble_queue(queue, entry.id)
              /\ clearing' =
                   [pc |-> IF Tail(clearing.entries) = << >> THEN "returned"
                           ELSE "remove",
                    entries |-> Tail(clearing.entries),
                    count |-> clearing.count + (IF found THEN 1 ELSE 0),
                    removed |-> clearing.removed + Len(queue) - Len(queue')]
              /\ UNCHANGED storeFailures
    /\ UNCHANGED outsideClear

\* Queues within and beyond what one read of clear_queue returns.
ClearedQueues == { LongQueue(2), LongQueue(ClearLimit + 1) }

InitClear ==
    /\ InitState(ClearedQueues, { << >> }, { {} }, { TRUE }, 0)
    /\ NoTextGiven
    /\ ~available

NextClear ==
    \/ ClearQueueFetch
    \/ ClearQueueRemove

SpecClear == InitClear /\ [][NextClear]_vars

\* The drain of a persisted queue by one drain thread, the sink accepting
\* every call.
InitFifo ==
    /\ InitWith(FifoQueues)
    /\ available

NextFifo ==
    \/ StartScrobbleProcessor({"w1"})
    \/ \E w \in Workers : ScrobbleLoopFetch(w)
    \/ \E w \in Workers : ProcessAttempt(w, {Returned})
    \/ \E w \in Workers : ProcessSettle(w)

SpecFifo == InitFifo /\ [][NextFifo]_vars

\* ------------------------------------------- the drain loop, the store failing
\* One drain thread over a persisted queue of two rows, with store
\* operations that raise, the one of the except clause included.
InitDrain ==
    /\ InitStateAllowing({ LongQueue(2) }, { << >> }, { {} }, { TRUE }, 0,
                         MaxDrainFailures)
    /\ NoTextGiven
    /\ available

NextDrain ==
    \/ StartScrobbleProcessor({"w1"})
    \/ \E w \in Workers : ScrobbleLoopFetch(w)
    \/ \E w \in Workers : ProcessAttempt(w, SinkOutcomes)
    \/ \E w \in Workers : ProcessSettle(w)

SpecDrain == InitDrain /\ [][NextDrain]_vars

\* ========================================================= DuplicateDetector
\* Strings are sequences of one-character strings.
LowerCase ==
    [c \in {"A", "B", "C", "D", "E", "F", "G", "H", "I", "J", "K", "L", "M",
            "N", "O", "P", "Q", "R", "S", "T", "U", "V", "W", "X", "Y", "Z"} |->
        CASE c = "A" -> "a" [] c = "B" -> "b" [] c = "C" -> "c" [] c = "D" -> "d"
          [] c = "E" -> "e" [] c = "F" -> "f" [] c = "G" -> "g" [] c = "H" -> "h"
          [] c = "I" -> "i" [] c = "J" -> "j" [] c = "K" -> "k" [] c = "L" -> "l"
          [] c = "M" -> "m" [] c = "N" -> "n" [] c = "O" -> "o" [] c = "P" -> "p"
          [] c = "Q" -> "q" [] c = "R" -> "r" [] c = "S" -> "s" [] c = "T" -> "t"
          [] c = "U" -> "u" [] c = "V" -> "v" [] c = "W" -> "w" [] c = "X" -> "x"
          [] c = "Y" -> "y" [] c = "Z" -> "z"]

\* str.lower()
Lower(text) ==
    [i \in DOMAIN text |->
        IF text[i] \in DOMAIN LowerCase THEN LowerCase[text[i]] ELSE text[i]]

\* str.replace(old, new) for a one-character old.
RECURSIVE ReplaceChar(_, _, _)
ReplaceChar(text, old, new) ==
    IF text = << >> THEN << >>
    ELSE (IF Head(text) = old THEN new ELSE << Head(text) >>)
            \o ReplaceChar(Tail(text), old, new)

\* str.replace('  ', ' '): one pass from the left over non-overlapping pairs.
RECURSIVE ReplaceDoubleSpace(_)
ReplaceDoubleSpace(text) ==
    IF Len(text) < 2 THEN text
    ELSE IF text[1] = " " /\ text[2] = " "
    THEN << " " >> \o ReplaceDoubleSpace(SubSeq(text, 3, Len(text)))
    ELSE << text[1] >> \o ReplaceDoubleSpace(Tail(text))

HasDoubleSpace(text) ==
    \E i \in 1..(Len(text) - 1) : text[i] = " " /\ text[i + 1] = " "

\* "while '  ' in normalized: normalized = normalized.replace('  ', ' ')"
RECURSIVE CollapseSpaces(_)
CollapseSpaces(text) ==
    IF HasDoubleSpace(text) THEN CollapseSpaces(ReplaceDoubleSpace(text)) ELSE text

\* The characters of strip(' .,!?-_()[]{}"\'\t\n\r').
StripChars ==
    {" ", ".", ",", "!", "?", "-", "_", "(", ")", "[", "]", "{", "}", "\"", "'",
     "\t", "\n", "\r"}

RECURSIVE StripLeft(_)
StripLeft(text) ==
    IF text # << >> /\ Head(text) \in StripChars THEN StripLeft(Tail(text))
    ELSE text

RECURSIVE StripRight(_)
StripRight(text) ==
    IF text # << >> /\ text[Len(text)] \in StripChars
    THEN StripRight(SubSeq(text, 1, Len(text) - 1))
    ELSE text

\* _normalize_string without its last loop.
normalize_string_uncollapsed(text) ==
    LET lowered == Lower(text)
        r1 == ReplaceChar(lowered, "&", << "a", "n", "d" >>)
        r2 == ReplaceChar(r1, "+", << "a", "n", "d" >>)
        r3 == ReplaceDoubleSpace(r2)
        r4 == ReplaceChar(r3, "\t", << " " >>)
        r5 == ReplaceChar(r4, "\n", << " " >>)
        r6 == ReplaceChar(r5, "\r", << " " >>)
    IN  StripRight(StripLeft(r6))

\* DuplicateDetector._normalize_string: lower, the replacements in the order
\* of the dict, strip, collapse.
normalize_string(text) ==
    LET lowered == Lower(text)
        r1 == ReplaceChar(lowered, "&", << "a", "n", "d" >>)
        r2 == ReplaceChar(r1, "+", << "a", "n", "d" >>)
        r3 == ReplaceDoubleSpace(r2)
        r4 == ReplaceChar(r3, "\t", << " " >>)
        r5 == ReplaceChar(r4, "\n", << " " >>)
        r6 == ReplaceChar(r5, "\r", << " " >>)
    IN  CollapseSpaces(StripRight(StripLeft(r6)))

\* The length of the longest common prefix of a[i..ahi] and b[j..bhi].
RECURSIVE MatchLength(_, _, _, _, _, _)
MatchLength(a, b, i, j, ahi, bhi) ==
    IF i <= ahi /\ j <= bhi /\ a[i] = b[j]
    THEN 1 + MatchLength(a, b, i + 1, j + 1, ahi, bhi)
    ELSE 0

\* difflib.SequenceMatcher.find_longest_match without junk: the longest
\* block, of those the one starting earliest in a, of those the one
\* starting earliest in b.
find_longest_match(a, b, alo, ahi, blo, bhi) ==
    LET blocks == { [i |-> i, j |-> j, k |-> MatchLength(a, b, i, j, ahi, bhi)] :
                        i \in alo..ahi, j \in blo..bhi }
        Better(x, y) == \/ x.k > y.k
                        \/ x.k = y.k /\ x.i < y.i
                        \/ x.k = y.k /\ x.i = y.i /\ x.j <= y.j
    IN  IF blocks = {} THEN [i |-> alo, j |-> blo, k |-> 0]
        ELSE CHOOSE x \in blocks : \A y \in blocks : Better(x, y)

\* The total size of SequenceMatcher.get_matching_blocks over a[alo..ahi],
\* b[blo..bhi]: the longest block, then the same to its left and its right.
RECURSIVE MatchingSize(_, _, _, _, _, _)
MatchingSize(a, b, alo, ahi, blo, bhi) ==
    LET m == find_longest_match(a, b, alo, ahi, blo, bhi)
    IN  IF m.k = 0 THEN 0
        ELSE m.k + MatchingSize(a, b, alo, m.i - 1, blo, m.j - 1)
                 + MatchingSize(a, b, m.i + m.k, ahi, m.j + m.k, bhi)

\* SequenceMatcher(None, a, b).ratio() as the fraction num / den:
\* 2.0 * matches / (len(a) + len(b)), and 1.0 for two empty strings.
ratio(a, b) ==
    IF Len(a) + Len(b) = 0 THEN [num |-> 1, den |-> 1]
    ELSE [num |-> 2 * MatchingSize(a, b, 1, Len(a), 1, Len(b)),
          den |-> Len(a) + Len(b)]

\* DuplicateDetector._calculate_similarity, in hundredths rounded down:
\* title_similarity * 0.7 + artist_similarity * 0.3.
calculate_similarity(artist1, title1, artist2, title2) ==
    LET artist_similarity == ratio(normalize_string(artist1), normalize_string(artist2))
        title_similarity == ratio(normalize_string(title1), normalize_string(title2))
    IN  (100 * (7 * title_similarity.num * artist_similarity.den
                 + 3 * artist_similarity.num * title_similarity.den))
          \div (10 * title_similarity.den * artist_similarity.den)

\* ---------------------------------------------------------- the fingerprint
DigitChar == << "0", "1", "2", "3", "4", "5", "6", "7", "8", "9" >>

\* str() of a non-negative int
RECURSIVE Digits(_)
Digits(n) ==
    IF n < 10 THEN << DigitChar[n + 1] >>
    ELSE Digits(n \div 10) \o << DigitChar[(n % 10) + 1] >>

\* "round(recognition_result.duration / 5) * 5" for an int duration
DurationRounded(d) == ((d + 2) \div 5) * 5

\* DuplicateDetector._create_fingerprint: the text that is hashed; the hash
\* is taken as injective on it.
create_fingerprint(r) ==
    LET data == normalize_string(r.artist) \o << "|" >>
                  \o normalize_string(r.title) \o << "|" >>
                  \o normalize_string(r.album)
    IN  IF \E d \in r.duration : d # 0
        THEN data \o << "|" >>
               \o Digits(DurationRounded(CHOOSE d \in r.duration : TRUE))
        ELSE data

\* ------------------------------------------------------ the duplicate store
\* A duplicate_cache row; inserted_at is a history field, the clock reading
\* of the insert.
CacheRow(fingerprint, artist, title, timestamp, confidence, at, ttl_seconds) ==
    [fingerprint |-> fingerprint, artist |-> artist, title |-> title,
     timestamp |-> timestamp, confidence |-> confidence,
     expires_at |-> at + ttl_seconds, inserted_at |-> at]

\* find_duplicate comparing expires_at with the next second.
find_duplicate_early(cache, fingerprint) ==
    { row \in cache : row.fingerprint = fingerprint /\ row.expires_at > now + 1 }

\* find_duplicate without the fingerprint in its WHERE clause.
find_duplicate_unkeyed(cache, fingerprint) ==
    { row \in cache : row.expires_at > now }

\* DatabaseManager.find_duplicate
find_duplicate(cache, fingerprint) ==
    { row \in cache : row.fingerprint = fingerprint /\ row.expires_at > now }

\* add_duplicate_entry writing a row that has expired already.
add_duplicate_entry_expired(cache, entry, ttl_seconds) ==
    { row \in cache : row.fingerprint # entry.fingerprint }
      \cup { [CacheRow(entry.fingerprint, entry.artist, entry.title,
                       entry.timestamp, entry.confidence, now, ttl_seconds)
               EXCEPT !.expires_at = now] }

\* add_duplicate_entry as a plain INSERT into a table without the UNIQUE
\* constraint.
add_duplicate_entry_insert(cache, entry, ttl_seconds) ==
    cache \cup { CacheRow(entry.fingerprint, entry.artist, entry.title,
                          entry.timestamp, entry.confidence, now, ttl_seconds) }

\* DatabaseManager.add_duplicate_entry: INSERT OR REPLACE on the UNIQUE
\* fingerprint.
add_duplicate_entry(cache, entry, ttl_seconds) ==
    { row \in cache : row.fingerprint # entry.fingerprint }
      \cup { CacheRow(entry.fingerprint, entry.artist, entry.title,
                      entry.timestamp, entry.confidence, now, ttl_seconds) }

\* DatabaseManager.cleanup_expired_duplicates
cleanup_expired_duplicates(cache) == { row \in cache : ~(row.expires_at <= now) }

\* "ORDER BY scrobbled_at DESC", rows of one second in rowid order.
ScrobbledAfter(a, b) ==
    \/ a.scrobbled_at > b.scrobbled_at
    \/ a.scrobbled_at = b.scrobbled_at /\ a.id < b.id

\* The scan order reversed: oldest first.
ScrobbledBefore(a, b) ==
    \/ a.scrobbled_at < b.scrobbled_at
    \/ a.scrobbled_at = b.scrobbled_at /\ a.id < b.id

\* DatabaseManager.get_recent_scrobbles
get_recent_scrobbles(h, limit) ==
    SubSeq(SortSeq(h, ScrobbledAfter), 1, Min(limit, Len(h)))

\* A scrobble_history row written at `at`.
HistoryRow(id, artist, title, at) ==
    [entry_id |-> id, artist |-> artist, title |-> title, album |-> << >>,
     duration |-> None, id |-> id, scrobbled_at |-> at,
     recognition_provider |-> "audd", recognition_confidence |-> 85]

\* ------------------------------------------------------------- is_duplicate
\* The guards of is_duplicate without the test of the title.
CacheableWithoutTitle(r) == enabled /\ r.success /\ r.artist # << >>

\* is_duplicate goes on to the fingerprint: "if not self.enabled" and
\* "if not recognition_result.success or not recognition_result.artist or
\* not recognition_result.title" both fail.
Cacheable(r) == enabled /\ r.success /\ r.artist # << >> /\ r.title # << >>

\* The record a scan reports for r at cutoff_time, from candidates in scan
\* order: the indexes of those the loop does not skip and finds similar.
Qualifying(r, candidates, cutoff_time) ==
    { i \in DOMAIN candidates :
        /\ ~(candidates[i].scrobbled_at < cutoff_time)
        /\ calculate_similarity(r.artist, r.title, candidates[i].artist,
                                candidates[i].title) >= similarity_threshold }

\* The loop of _check_similar_tracks over candidates in scan order, and the
\* DuplicateCheck it ends with.
ScanAt(r, fingerprint, candidates, current_time, cutoff_time) ==
    LET hits == Qualifying(r, candidates, cutoff_time)
    IN  IF hits = {}
        THEN DuplicateCheck(FALSE, 0, None, None, Some(fingerprint))
        ELSE LET scrobble ==
                   candidates[CHOOSE i \in hits : \A j \in hits : i <= j]
             IN  DuplicateCheck(
                   TRUE,
                   calculate_similarity(r.artist, r.title, scrobble.artist,
                                        scrobble.title),
                   Some(current_time - scrobble.scrobbled_at),
                   Some([artist |-> scrobble.artist, title |-> scrobble.title]),
                   Some(fingerprint))

\* The scan with no record too old for it.
ScanForAnyAge(r, fingerprint, candidates) ==
    ScanAt(r, fingerprint, candidates, now, 0)

\* _check_similar_tracks: "current_time = int(time.time())",
\* "cutoff_time = current_time - self.time_window", and the loop.
ScanFor(r, fingerprint, candidates) ==
    ScanAt(r, fingerprint, candidates, now, now - time_window)

\* The fuzzy check scanning the oldest record first.
check_similar_tracks_oldest_first(r, fingerprint, h) ==
    ScanFor(r, fingerprint,
            SubSeq(SortSeq(h, ScrobbledBefore), 1, Min(RecentLimit, Len(h))))

\* The fuzzy check scanning every history record.
check_similar_tracks_unlimited(r, fingerprint, h) ==
    ScanFor(r, fingerprint, SortSeq(h, ScrobbledAfter))

\* DuplicateDetector._check_similar_tracks
check_similar_tracks(r, fingerprint, h) ==
    ScanFor(r, fingerprint, get_recent_scrobbles(h, RecentLimit))

Check(op, input, outcome, via, value, added) ==
    [op |-> op, input |-> input, outcome |-> outcome, via |-> via,
     value |-> value, added |-> added]

NonDuplicate == DuplicateCheck(FALSE, 0, None, None, None)

queueVars == << queue, nextId, stats, available, running, scrobble_thread,
                workerVars, producerVars, pret, ghostVars >>
\* What the detector's operations leave alone, the store and the clock
\* apart.
outsideDetector == << queueVars, textVars, store, segmenter, storeBudget,
       clearing >>
\* What normalizing and fingerprinting by themselves leave alone.
outsideText ==
    << queueVars, history, storeFailures, now, detectorVars, pipeline, store,
       segmenter, storeBudget,
       clearing >>

\* is_duplicate up to the exact check: the guards, the fingerprint and
\* find_duplicate, which may raise.
IsDuplicate(results) ==
    /\ dpc = "idle"
    /\ \E r \in results :
         IF ~Cacheable(r)
         THEN /\ dcheck' = Check("is_duplicate", r, "returned", "guard",
                                 NonDuplicate, FALSE)
              /\ UNCHANGED << dpc, darg, storeFailures >>
         ELSE LET fingerprint == create_fingerprint(r)
                  existing_entry == find_duplicate(duplicate_cache, fingerprint)
              IN  \/ /\ storeFailures < storeBudget
                     /\ storeFailures' = storeFailures + 1
                     /\ dcheck' = Check("is_duplicate", r, "raised", "exact",
                                        NonDuplicate, FALSE)
                     /\ UNCHANGED << dpc, darg >>
                  \/ /\ existing_entry # {}
                     /\ LET e == CHOOSE row \in existing_entry : TRUE
                        IN  dcheck' =
                              Check("is_duplicate", r, "returned", "exact",
                                    DuplicateCheck(
                                      TRUE, 100, Some(now - e.timestamp),
                                      Some([artist |-> e.artist,
                                            title |-> e.title]),
                                      Some(fingerprint)),
                                    FALSE)
                     /\ UNCHANGED << dpc, darg, storeFailures >>
                  \/ /\ existing_entry = {}
                     /\ dpc' = "similar"
                     /\ darg' = [result |-> r, fingerprint |-> fingerprint,
                                 timestamp |-> 0]
                     /\ dcheck' = NoCheck
                     /\ UNCHANGED storeFailures
    /\ replaced' = {}
    /\ UNCHANGED << outsideDetector, history, now, enabled, duplicate_cache >>

\* _check_similar_tracks: the clock, get_recent_stats and
\* get_recent_scrobbles, which may raise, and the scan.
CheckSimilarTracks ==
    /\ dpc = "similar"
    /\ \/ /\ storeFailures < storeBudget
          /\ storeFailures' = storeFailures + 1
          /\ dcheck' = Check("is_duplicate", darg.result, "raised", "similar",
                             NonDuplicate, FALSE)
       \/ /\ dcheck' = Check("is_duplicate", darg.result, "returned", "similar",
                             check_similar_tracks(darg.result, darg.fingerprint,
                                                  history),
                             FALSE)
          /\ UNCHANGED storeFailures
    /\ dpc' = "idle"
    /\ darg' = NoDetectorArg
    /\ replaced' = {}
    /\ UNCHANGED << outsideDetector, history, now, enabled, duplicate_cache >>

\* add_track up to the DuplicateEntry: the guard, the fingerprint and the
\* timestamp.
AddTrack(results) ==
    /\ dpc = "idle"
    /\ \E r \in results :
         IF ~enabled \/ ~r.success
         THEN /\ dcheck' = Check("add_track", r, "returned", "guard",
                                 NonDuplicate, FALSE)
              /\ UNCHANGED << dpc, darg >>
         ELSE /\ \/ Cardinality(duplicate_cache) < MaxCacheRows
                 \/ \E row \in duplicate_cache :
                      row.fingerprint = create_fingerprint(r)
              /\ dpc' = "store"
              /\ darg' = [result |-> r, fingerprint |-> create_fingerprint(r),
                          timestamp |-> now]
              /\ dcheck' = NoCheck
    /\ replaced' = {}
    /\ UNCHANGED << outsideDetector, history, now, enabled, duplicate_cache,
                    storeFailures >>

\* add_track from "self.database.add_duplicate_entry(entry, self.time_window)":
\* True, or False when the store raises.
AddDuplicateEntry ==
    /\ dpc = "store"
    /\ \/ /\ storeFailures < storeBudget
          /\ storeFailures' = storeFailures + 1
          /\ dcheck' = Check("add_track", darg.result, "returned", "store",
                             NonDuplicate, FALSE)
          /\ replaced' = {}
          /\ UNCHANGED duplicate_cache
       \/ /\ duplicate_cache' =
               add_duplicate_entry(
                 duplicate_cache,
                 [fingerprint |-> darg.fingerprint,
                  artist |-> darg.result.artist, title |-> darg.result.title,
                  timestamp |-> darg.timestamp,
                  confidence |-> darg.result.confidence],
                 time_window)
          /\ dcheck' = Check("add_track", darg.result, "returned", "store",
                             NonDuplicate, TRUE)
          /\ replaced' = { row \in duplicate_cache :
                             row.fingerprint = darg.fingerprint }
          /\ UNCHANGED storeFailures
    /\ dpc' = "idle"
    /\ darg' = NoDetectorArg
    /\ UNCHANGED << outsideDetector, history, now, enabled >>

\* cleanup_expired: the rows deleted, or none when the store raises.
CleanupExpired ==
    /\ dpc = "idle"
    /\ \/ /\ storeFailures < storeBudget
          /\ storeFailures' = storeFailures + 1
          /\ UNCHANGED duplicate_cache
       \/ /\ duplicate_cache' = cleanup_expired_duplicates(duplicate_cache)
          /\ duplicate_cache' # duplicate_cache
          /\ UNCHANGED storeFailures
    /\ dcheck' = NoCheck
    /\ replaced' = {}
    /\ UNCHANGED << outsideDetector, history, now, enabled, dpc, darg >>

\* The drain loop delivers a track and records it: add_to_history.
AddToHistory(tracks) ==
    /\ Len(history) < MaxHistory
    /\ \E t \in tracks :
         history' = add_to_history(
                      history,
                      ScrobbleEntry(Len(history) + 1, t.artist, t.title, << >>,
                                    None, now),
                      "audd", 85)
    /\ dcheck' = NoCheck
    /\ replaced' = {}
    /\ UNCHANGED << outsideDetector, now, enabled, duplicate_cache, dpc, darg,
                    storeFailures >>

\* ------------------------------------------------------- the detector's runs
abcd == << "a", "b", "c", "d" >>
abce == << "a", "b", "c", "e" >>
ABCD == << "A", "B", "C", "D", " " >>
xy == << "x", "y" >>
xz == << "x", "z" >>

DetectorResults ==
    { DetectorResult(TRUE, abcd, xy, << >>, None),
      DetectorResult(TRUE, ABCD, xy, << >>, None),
      DetectorResult(TRUE, abce, xy, << >>, Some(7)),
      DetectorResult(TRUE, abcd, << >>, << >>, None),
      DetectorResult(FALSE, abcd, xy, << >>, None) }

\* A history longer than the scan reads: the oldest row is the checked
\* track, the RecentLimit rows after it another one.
LongHistory ==
    [i \in 1..(RecentLimit + 1) |->
        IF i = 1 THEN HistoryRow(1, abcd, xy, 0) ELSE HistoryRow(i, abcd, xz, 1)]

DetectorHistories ==
    { << >>,
      << HistoryRow(1, abcd, xy, 0) >>,
      << HistoryRow(1, abcd, xy, 0), HistoryRow(2, abce, xy, 1) >>,
      << HistoryRow(1, abcd, xz, 1) >>,
      LongHistory }

\* The duplicate_cache of a database file: empty, or one row written a
\* second before the detector is constructed.
PersistedCaches ==
    { {}, { CacheRow(create_fingerprint(DetectorResult(TRUE, abcd, xy, << >>,
                                                        None)),
                     abcd, xy, 0, 85, 0, time_window) } }

DeliveredTracks == { [artist |-> abce, title |-> xy] }

InitDuplicate ==
    /\ InitState({ << >> }, DetectorHistories, PersistedCaches, BOOLEAN, 1)
    /\ NoTextGiven
    /\ ~available

NextDuplicate ==
    \/ IsDuplicate(DetectorResults) /\ UNCHANGED pipeline
    \/ CheckSimilarTracks /\ UNCHANGED pipeline
    \/ AddTrack(DetectorResults) /\ UNCHANGED pipeline
    \/ AddDuplicateEntry /\ UNCHANGED pipeline
    \/ CleanupExpired /\ UNCHANGED pipeline
    \/ AddToHistory(DeliveredTracks) /\ UNCHANGED pipeline
    \/ ClockStep({ now + 1 } \cap (0..MaxTime)) /\ UNCHANGED pipeline

SpecDuplicate == InitDuplicate /\ [][NextDuplicate]_vars

\* ------------------------------------------------- normalizing, by itself
\* The characters of the strings given: letters, '&', '+', white space and
\* characters that strip() removes at the edges.
TextChars == { "A", "b", "&", "+", " ", "\t", "\n", "\r", ".", "(" }

\* The strings over chars of length up to n.
RECURSIVE TextsUpTo(_, _)
TextsUpTo(chars, n) ==
    IF n = 0 THEN { << >> }
    ELSE LET shorter == TextsUpTo(chars, n - 1)
         IN  shorter \cup { Append(t, c) : t \in shorter, c \in chars }

\* _normalize_string, called on the string given and then on what it last
\* returned.
Normalize ==
    /\ Len(normalized) < MaxPasses
    /\ normalized' =
         Append(normalized,
                normalize_string(IF normalized = << >> THEN given
                                 ELSE normalized[Len(normalized)]))
    /\ UNCHANGED << outsideText, given, texts, prints >>

InitNormalize ==
    /\ InitState({ << >> }, { << >> }, { {} }, { TRUE }, 0)
    /\ ~available
    /\ given \in TextsUpTo(TextChars, MaxTextLen)
    /\ normalized = << >>
    /\ texts = NoTexts
    /\ prints = << >>

NextNormalize == Normalize

SpecNormalize == InitNormalize /\ [][NextNormalize]_vars

\* ---------------------------------------------- fingerprints of two spellings
Fields == { "artist", "title", "album" }

\* A letter in the other case.
ToggleCase(c) ==
    IF c \in DOMAIN LowerCase THEN LowerCase[c]
    ELSE CHOOSE u \in DOMAIN LowerCase : LowerCase[u] = c

IsLetter(c) ==
    c \in DOMAIN LowerCase \/ \E u \in DOMAIN LowerCase : LowerCase[u] = c

\* t with the characters i..j replaced by run.
Spliced(t, i, j, run) == SubSeq(t, 1, i - 1) \o run \o SubSeq(t, j + 1, Len(t))

\* Runs of spaces, tabs and newlines.
WhiteRuns ==
    { << " ", " " >>, << "\t" >>, << "\n", " " >>, << " ", "\t", "\n" >> }

\* Punctuation and white space written before or after a field.
EdgeChars == { ".", "!", ")", ":", " ", "\t" }

BaseTexts ==
    { << "a", "n", "d" >>, << "X", " ", "a", "n", "d", " ", "y" >> }

\* The variant result with field f spelled t, after one more variation.
Varied(f, t, edge) ==
    [texts EXCEPT !.variant[f] = t, !.varied = @ + 1, !.edges = @ \cup edge]

\* The two results may still be given another spelling.
MayVary == prints = << >> /\ texts.varied < MaxVariations

\* A letter of a field of the variant in the other case.
VaryCase ==
    /\ MayVary
    /\ \E f \in Fields : \E i \in DOMAIN texts.variant[f] :
         /\ IsLetter(texts.variant[f][i])
         /\ texts' = Varied(f, [texts.variant[f] EXCEPT ![i] = ToggleCase(@)],
                            {})
    /\ UNCHANGED << outsideText, given, normalized, prints >>

\* '&' or '+' for an 'and' of a field of the variant.
VaryAnd ==
    /\ MayVary
    /\ \E f \in Fields : \E i \in 1..(Len(texts.variant[f]) - 2) :
         /\ Lower(SubSeq(texts.variant[f], i, i + 2)) = << "a", "n", "d" >>
         /\ \E c \in { "&", "+" } :
              texts' = Varied(f, Spliced(texts.variant[f], i, i + 2, << c >>),
                              {})
    /\ UNCHANGED << outsideText, given, normalized, prints >>

\* A run of white space for a space of a field of the variant.
VarySpace ==
    /\ MayVary
    /\ \E f \in Fields : \E i \in DOMAIN texts.variant[f] :
         /\ texts.variant[f][i] = " "
         /\ \E run \in WhiteRuns :
              texts' = Varied(f, Spliced(texts.variant[f], i, i, run), {})
    /\ UNCHANGED << outsideText, given, normalized, prints >>

\* A character before or after a field of the variant.
VaryEdge ==
    /\ MayVary
    /\ \E f \in Fields : \E c \in EdgeChars :
         \/ texts' = Varied(f, << c >> \o texts.variant[f], { c })
         \/ texts' = Varied(f, Append(texts.variant[f], c), { c })
    /\ UNCHANGED << outsideText, given, normalized, prints >>

\* _create_fingerprint of the two results.
CreateFingerprints ==
    /\ prints = << >>
    /\ prints' = << create_fingerprint(texts.base),
                    create_fingerprint(texts.variant) >>
    /\ UNCHANGED << outsideText, given, normalized, texts >>

InitFingerprint ==
    /\ InitState({ << >> }, { << >> }, { {} }, { TRUE }, 0)
    /\ ~available
    /\ given = << >>
    /\ normalized = << >>
    /\ \E artist \in BaseTexts, album \in { << >>, << "a", "n", "d" >> },
          duration \in { None, Some(7) } :
         LET r == DetectorResult(TRUE, artist, xy, album, duration)
         IN  texts = [base |-> r, variant |-> r, varied |-> 0, edges |-> {}]
    /\ prints = << >>

NextFingerprint ==
    \/ VaryCase
    \/ VaryAnd
    \/ VarySpace
    \/ VaryEdge
    \/ CreateFingerprints

SpecFingerprint == InitFingerprint /\ [][NextFingerprint]_vars

\* --------------------------------------------- fingerprints of two results
\* Field texts with the character that _create_fingerprint joins the fields
\* with.
JoinedTexts == TextsUpTo({ "a", "|" }, MaxFieldLen)

\* Any two results, fingerprinted.
FieldResults ==
    { DetectorResult(TRUE, artist, title, album, duration) :
        artist \in JoinedTexts, title \in JoinedTexts,
        album \in { << >>, << "5" >> },
        duration \in { None, Some(0), Some(5), Some(7) } }

InitFields ==
    /\ InitState({ << >> }, { << >> }, { {} }, { TRUE }, 0)
    /\ ~available
    /\ given = << >>
    /\ normalized = << >>
    /\ \E r1 \in FieldResults, r2 \in FieldResults :
         texts = [base |-> r1, variant |-> r2, varied |-> 0, edges |-> {}]
    /\ prints = << >>

NextFields == CreateFingerprints

SpecFields == InitFields /\ [][NextFields]_vars

\* ------------------------------------------- one recognition after another
\* Successful recognitions of one play: two spellings, one fingerprint.
SamePlay ==
    { DetectorResult(TRUE, abcd, xy, << >>, None),
      DetectorResult(TRUE, ABCD, xy, << >>, None) }

\* The pipeline after is_duplicate took a step for r: waiting for the
\* fuzzy check, done with a duplicate or a raised error, or on to add_track
\* with a non-duplicate.
Answered(r) ==
    IF dpc' = "similar" THEN [pipeline EXCEPT !.pc = "checking", !.result = r]
    ELSE IF dcheck'.outcome = "returned" /\ ~dcheck'.value.is_duplicate
    THEN [pipeline EXCEPT !.pc = "add", !.result = r, !.at = now]
    ELSE [pipeline EXCEPT !.pc = "idle"]

\* A recognition arrives and is_duplicate is called for it.
PipelineCheck ==
    /\ pipeline.pc = "idle"
    /\ Len(pipeline.enqueued) < MaxEnqueued
    /\ \E r \in SamePlay :
         /\ IsDuplicate({ r })
         /\ pipeline' = Answered(r)

\* is_duplicate goes through its fuzzy check.
PipelineCheckSimilar ==
    /\ pipeline.pc = "checking"
    /\ CheckSimilarTracks
    /\ pipeline' = Answered(pipeline.result)

\* On a non-duplicate answer, add_track is called.
PipelineAddTrack ==
    /\ pipeline.pc = "add"
    /\ AddTrack({ pipeline.result })
    /\ pipeline' = [pipeline EXCEPT
                      !.pc = IF dpc' = "store" THEN "adding" ELSE "enqueue"]

\* add_track inserts the duplicate record, or fails to.
PipelineAddDuplicateEntry ==
    /\ pipeline.pc = "adding"
    /\ AddDuplicateEntry
    /\ pipeline' = [pipeline EXCEPT !.pc = "enqueue"]

\* After add_track, the result is handed to queue_scrobble.
PipelineEnqueue ==
    /\ pipeline.pc = "enqueue"
    /\ pipeline' =
         [pipeline EXCEPT
            !.pc = "idle",
            !.enqueued =
               Append(@, [fingerprint |-> create_fingerprint(pipeline.result),
                          at |-> pipeline.at])]
    /\ dcheck' = NoCheck
    /\ replaced' = {}
    /\ UNCHANGED << outsideDetector, history, now, storeFailures, enabled,
                    duplicate_cache, dpc, darg >>

InitPipeline ==
    /\ InitState({ << >> }, { << >> }, { {} }, BOOLEAN, 1)
    /\ NoTextGiven
    /\ ~available

NextPipeline ==
    \/ PipelineCheck
    \/ PipelineCheckSimilar
    \/ PipelineAddTrack
    \/ PipelineAddDuplicateEntry
    \/ PipelineEnqueue
    \/ CleanupExpired /\ UNCHANGED pipeline
    \/ ClockStep({ now + 1 } \cap (0..MaxTime)) /\ UNCHANGED pipeline

SpecPipeline == InitPipeline /\ [][NextPipeline]_vars

\* --------------------------------------------- threads in store operations
\* The store operations a thread calls, with the value each returns (the
\* id given, the ids listed, 1 for a row found and 0 for none): the pipeline's threads go through
\* the DatabaseManager they share, the web interface through its own.
StoreOps ==
    { [name |-> "add_to_scrobble_queue", id |-> 0, via |-> "shared",
       value |-> << >>, raised |-> FALSE],
      [name |-> "get_scrobble_queue", id |-> 0, via |-> "shared",
       value |-> << >>, raised |-> FALSE],
      [name |-> "get_recent_scrobbles", id |-> 0, via |-> "web",
       value |-> << >>, raised |-> FALSE] }
    \cup { [name |-> n, id |-> i, via |-> "shared", value |-> << >>, raised |-> FALSE] :
             n \in { "remove_from_scrobble_queue", "increment_retry_count" },
             i \in 1..2 }

\* The threads between "with self._lock:" and the end of the block.
Inside == { t \in Threads : store.pc[t] \in { "connected", "executed" } }

\* threading.Lock.acquire without waiting for the holder.
AcquirableAnyway(lock, m) == TRUE

\* threading.Lock.acquire returns when no thread holds the lock.
Acquirable(lock, m) == lock[m] = "free"

\* What the store leaves alone in an operation on scrobble_queue.
outsideStore ==
    << history, stats, available, running, scrobble_thread, workerVars,
       producerVars, pret, ghostVars, now, detectorVars, textVars, pipeline,
       segmenter, storeBudget,
       clearing >>

\* A thread calls a store operation and reaches "with self._lock:".
StoreCall(t) ==
    /\ store.pc[t] = "idle"
    /\ Len(store.returned) + Cardinality({ u \in Threads : store.pc[u] # "idle" })
         < MaxCalls
    /\ \E op \in StoreOps :
         store' = [store EXCEPT !.pc[t] = "lock", !.op[t] = op]
    /\ UNCHANGED << queue, nextId, storeFailures, outsideStore >>

\* _get_connection up to the yield: the lock is taken and the connection
\* opened.
StoreConnect(t) ==
    /\ store.pc[t] = "lock"
    /\ Acquirable(store.lock, store.op[t].via)
    /\ store' = [store EXCEPT !.pc[t] = "connected",
                              !.lock[store.op[t].via] = t]
    /\ UNCHANGED << queue, nextId, storeFailures, outsideStore >>

\* The body of the with block: the statement, and its commit or its fetch.
StoreExecute(t) ==
    LET op == store.op[t]
        e == ScrobbleEntry(nextId, "Artist", "Title", None, None, now)
        found == op.id \in QueueIds(queue)
        value == CASE op.name = "add_to_scrobble_queue" -> << nextId >>
                   [] op.name = "get_scrobble_queue" ->
                        [i \in DOMAIN get_scrobble_queue(queue, BatchLimit) |->
                           get_scrobble_queue(queue, BatchLimit)[i].id]
                   [] op.name = "get_recent_scrobbles" ->
                        [i \in DOMAIN get_recent_scrobbles(history, RecentLimit) |->
                           get_recent_scrobbles(history, RecentLimit)[i].id]
                   [] OTHER -> << IF found THEN 1 ELSE 0 >>
    IN  /\ store.pc[t] = "connected"
        /\ store' = [store EXCEPT !.pc[t] = "executed", !.op[t].value = value]
        /\ queue' = CASE op.name = "add_to_scrobble_queue" -> Append(queue, e)
                      [] op.name = "remove_from_scrobble_queue" ->
                           remove_from_scrobble_queue(queue, op.id)
                      [] op.name = "increment_retry_count" ->
                           increment_retry_count(queue, op.id)
                      [] OTHER -> queue
        /\ nextId' = IF op.name = "add_to_scrobble_queue" THEN nextId + 1
                     ELSE nextId
        /\ UNCHANGED << storeFailures, outsideStore >>

\* The statement raises: the finally closes the connection, the with
\* releases the lock, the caller gets the exception.
StoreRaise(t) ==
    /\ store.pc[t] = "connected"
    /\ storeFailures < storeBudget
    /\ storeFailures' = storeFailures + 1
    /\ store' = [store EXCEPT
                   !.pc[t] = "idle", !.op[t] = NoOp,
                   !.lock[store.op[t].via] = "free",
                   !.returned = Append(@, [store.op[t] EXCEPT
                                             !.raised = TRUE])]
    /\ UNCHANGED << queue, nextId, outsideStore >>

\* _get_connection after the yield: the connection is closed, the lock
\* released, and the operation returns its value.
StoreClose(t) ==
    /\ store.pc[t] = "executed"
    /\ store' = [store EXCEPT
                   !.pc[t] = "idle", !.op[t] = NoOp,
                   !.lock[store.op[t].via] = "free",
                   !.returned = Append(@, store.op[t])]
    /\ UNCHANGED << queue, nextId, storeFailures, outsideStore >>

\* A database file with an empty queue, or with one row persisted.
InitStore ==
    /\ InitState({ << >>, << ScrobbleEntry(1, "Artist", "Title", None, None, 0) >> },
                 { << >> }, { {} }, { TRUE }, 0)
    /\ NoTextGiven
    /\ ~available

NextStore ==
    \E t \in Threads :
        \/ StoreCall(t)
        \/ StoreConnect(t)
        \/ StoreExecute(t)
        \/ StoreRaise(t)
        \/ StoreClose(t)

\* Every thread that can take a step is scheduled sooner or later.
SpecStore ==
    InitStore /\ [][NextStore]_vars /\ \A t \in Threads : WF_vars(
        StoreConnect(t) \/ StoreExecute(t) \/ StoreClose(t))

\* ------------------------------------------------------- the audio segmenter
\* The recording's length in ticks: its samples, not the wall clock.
Duration(recording) == Len(recording) * ChunkLen

\* _start_recording that starts over when already recording.
start_recording_regardless(seg, t) ==
    [seg EXCEPT !.is_recording = TRUE, !.current_recording = << >>,
                !.music_start_time = t, !.last_voiced_time = t,
                !.opened = @ + 1, !.event = << "opened", "none" >>]

\* _start_recording: nothing when already recording; else a new session.
start_recording(seg, t) ==
    IF seg.is_recording THEN seg
    ELSE [seg EXCEPT !.is_recording = TRUE, !.current_recording = << >>,
                     !.music_start_time = t, !.last_voiced_time = t,
                     !.opened = @ + 1, !.event = << "opened", "none" >>]

\* No recording is too short.
TooShortNever(recording) == FALSE

\* The minimum track length of _finish_recording.
TooShort(recording) == Duration(recording) < min_track_length

\* _finish_recording: a recording too short is dropped; any other is saved
\* and handed to on_track_detected, and the time is kept for the debounce.
finish_recording(seg, t, cause) ==
    IF TooShort(seg.current_recording)
    THEN [seg EXCEPT !.is_recording = FALSE, !.current_recording = << >>,
                     !.closed = @ + 1, !.event = << "discarded", cause >>]
    ELSE [seg EXCEPT !.is_recording = FALSE, !.current_recording = << >>,
                     !.closed = @ + 1, !.event = << "emitted", cause >>,
                     !.last_track_end_time = Some(t),
                     !.emitted = Append(@, [samples |-> seg.current_recording,
                                            at |-> t, cause |-> cause])]

\* A new track may start at any time.
CooledDownAlways(seg, t) == TRUE

\* Enough time has passed since the previous track ended.
CooledDown(seg, t) ==
    \A e \in seg.last_track_end_time : t - e >= debounce

\* The maximum recording duration, with > for >=.
MaxReachedPast(seg, t) == t - seg.music_start_time > max_recording_duration

\* The recording has lasted max_recording_duration since it started.
MaxReached(seg, t) == t - seg.music_start_time >= max_recording_duration

\* Any silence ends the recording.
SilenceConfirmedAtOnce(seg, t) == t - seg.last_voiced_time > 0

\* The silence duration, with > for >=.
SilenceConfirmedPast(seg, t) == t - seg.last_voiced_time > silence_duration

\* The signal has been silent for silence_duration.
SilenceConfirmed(seg, t) == t - seg.last_voiced_time >= silence_duration

\* The chunk of `kind` read at t is appended to the session.
Appended(seg, kind, t) ==
    [seg EXCEPT !.current_recording = Append(@, kind),
                !.last_voiced_time = IF kind = "voiced" THEN t ELSE @,
                !.event = << "appended", "none" >>]

\* _handle_music: a voiced chunk read at t.
handle_music(seg, t) ==
    IF ~seg.is_recording
    THEN IF CooledDown(seg, t)
         THEN Appended(start_recording(seg, t), "voiced", t)
         ELSE [seg EXCEPT !.event = << "ignored", "none" >>]
    ELSE IF MaxReached(seg, t)
         THEN finish_recording(Appended(seg, "voiced", t), t, "max")
         ELSE Appended(seg, "voiced", t)

\* _handle_silence: a silent chunk read at t.
handle_silence(seg, t) ==
    IF ~seg.is_recording THEN [seg EXCEPT !.event = << "ignored", "none" >>]
    ELSE IF MaxReached(seg, t)
         THEN finish_recording(Appended(seg, "silent", t), t, "max")
         ELSE IF SilenceConfirmed(seg, t)
              THEN finish_recording(Appended(seg, "silent", t), t, "silence")
              ELSE Appended(seg, "silent", t)

\* A stop that finishes the recording in progress as a chunk would.
stop_monitoring_finishing(seg) ==
    IF seg.is_recording
    THEN [finish_recording(seg, seg.clock, "stop") EXCEPT !.stopped = TRUE]
    ELSE [seg EXCEPT !.stopped = TRUE, !.event = << "stopped", "none" >>]

\* stop_monitoring: the session in progress is dropped with its samples.
stop_monitoring(seg) ==
    [seg EXCEPT !.stopped = TRUE, !.is_recording = FALSE,
                !.current_recording = << >>,
                !.closed = IF seg.is_recording THEN @ + 1 ELSE @,
                !.event = << "stopped", "none" >>]

\* The segmenter after a chunk of `kind`, read `gap` after the one before.
Fed(seg, kind, gap) ==
    [seg EXCEPT !.clock = @ + gap, !.gap = gap,
                !.fed = Append(@, [kind |-> kind, at |-> seg.clock + gap])]

MayProcess == ~segmenter.stopped /\ Len(segmenter.fed) < MaxChunks

\* What the segmenter leaves alone.
outsideSegmenter ==
    << queueVars, history, storeFailures, now, detectorVars, textVars,
       pipeline, store, storeBudget, clearing >>

\* _process_audio_chunk with a chunk over the silence threshold.
HandleMusic ==
    /\ MayProcess
    /\ \E gap \in ChunkLen..MaxGap :
         segmenter' = handle_music(Fed(segmenter, "voiced", gap),
                                   segmenter.clock + gap)
    /\ UNCHANGED outsideSegmenter

\* _process_audio_chunk with a chunk under the threshold, or an empty one.
HandleSilence ==
    /\ MayProcess
    /\ \E gap \in ChunkLen..MaxGap :
         segmenter' = handle_silence(Fed(segmenter, "silent", gap),
                                     segmenter.clock + gap)
    /\ UNCHANGED outsideSegmenter

\* _start_recording called while a recording is in progress.
StartRecording ==
    /\ ~segmenter.stopped
    /\ segmenter.is_recording
    /\ segmenter.requests < MaxRequests
    /\ segmenter' = [start_recording(segmenter, segmenter.clock) EXCEPT
                       !.requests = @ + 1]
    /\ UNCHANGED outsideSegmenter

\* A stop request: a partial session is dropped, nothing is handed on.
StopProcessing ==
    /\ ~segmenter.stopped
    /\ segmenter' = stop_monitoring(segmenter)
    /\ UNCHANGED outsideSegmenter

InitSegmenter ==
    /\ InitState({ << >> }, { << >> }, { {} }, { TRUE }, 0)
    /\ NoTextGiven
    /\ ~available

NextSegmenter ==
    \/ HandleMusic
    \/ HandleSilence
    \/ StartRecording
    \/ StopProcessing

SpecSegmenter == InitSegmenter /\ [][NextSegmenter]_vars

\* ================================================================== claims
AllTransient(s) == \A i \in DOMAIN s : s[i] = "transient"

\* No drain thread is between the sink call and the queue update for id.
Settled(id) ==
    \A w \in Workers : wpc[w] = "settle" => Head(batch[w]).id # id

\* No store operation has raised and no two drain threads have overlapped.
Undisturbed == storeFailures = 0 /\ ~overlapped

RowIn(q, id) == CHOOSE e \in { q[i] : i \in DOMAIN q } : e.id = id

\* A valid entry: artist and title present, duration unknown or not below
\* the minimum play time.
ValidEntry(e) ==
    /\ e.artist # ""
    /\ e.title # ""
    /\ \A d \in e.duration : d >= min_play_time

\* C1: a queue_scrobble call that reads a queue size of max_queue_size or
\* more returns False in that step and leaves the queue as it was: nothing
\* is added, nothing is evicted, no insert is left pending.
C1_FullQueueRejects ==
    [][\A p \in Producers :
         ( /\ ppc[p] = "idle"
           /\ pret'.caller = p \/ ppc'[p] # "idle"
           /\ pret'.checked \/ ppc'[p] # "idle"
           /\ get_queue_size(queue) >= max_queue_size )
         => ( /\ pret' = Return(p, "False", TRUE)
              /\ queue' = queue
              /\ ppc'[p] = "idle" )]_vars

C1_Witness ==
    /\ pret.value = "False"
    /\ pret.checked
    /\ get_queue_size(queue) >= max_queue_size
    /\ \A p \in Producers : ppc[p] = "idle"

\* C2: the scrobble queue never holds more than max_queue_size entries.
C2_QueueBounded == Len(queue) <= max_queue_size

C4_RetryCountWithinMax ==
    storeFailures = 0
    => \A i \in DOMAIN queue : queue[i].retry_count <= max_retries

\* C5: with a working store, a Terminal failure is the last delivery attempt
\* ever made for its entry.
C5_TerminalIsFinal ==
    storeFailures = 0
    => \A id \in Ids : \A i \in DOMAIN log[id] :
          log[id][i] = "terminal" => i = Len(log[id])

\* C6: every history record carries the provider and the confidence of the
\* recognition that produced its entry.
C6_HistoryCarriesRecognition ==
    \A i \in DOMAIN history :
        LET h == history[i]
            row == inserted[h.entry_id]
        IN  /\ row.known
            /\ h.artist = row.artist /\ h.title = row.title /\ h.album = row.album
            /\ h.recognition_provider = row.provider
            /\ h.recognition_confidence = row.confidence

\* C7: whenever the drain loop deletes the row of a valid entry, the sink has
\* been called for that entry; and it never deletes the row of a valid entry
\* whose calls all failed Transient while its retry_count is below
\* max_retries.
C7_AtLeastOnce ==
    [][\A id \in drainRemoved' \ drainRemoved :
         LET e == RowIn(queue, id)
         IN  ValidEntry(e)
             => /\ log[id] # << >>
                /\ ~(AllTransient(log[id]) /\ e.retry_count < max_retries)]_vars

\* A valid entry is back in the queue, retry_count raised, after a Transient
\* failure, and another valid entry has been delivered and removed.
C7_Witness ==
    /\ \E i \in DOMAIN queue :
          /\ ValidEntry(queue[i])
          /\ queue[i].retry_count >= 1
          /\ log[queue[i].id] # << >>
          /\ AllTransient(log[queue[i].id])
          /\ Settled(queue[i].id)
    /\ \E id \in drainRemoved :
          /\ ValidEntry(inserted[id])
          /\ log[id] # << >>

\* C8: every entry the drain loop removed is in history or was counted as
\* dropped in the statistics.
C8_NoSilentLoss ==
    \A id \in drainRemoved :
        \/ \E i \in DOMAIN history : history[i].entry_id = id
        \/ id \in dropCounted

\* C9: a failed sink call is Terminal (should_retry False) exactly when it
\* raised WSError with error code 2, 3, 4, 5, 6, 7, 9, 10, 13 or 26, and
\* Transient (should_retry True) otherwise.
C9_Classification ==
    \A w \in Workers :
        (wpc[w] = "settle" /\ SinkCalled(result[w]) /\ ~result[w].success)
        => /\ result[w].should_retry \in BOOLEAN
           /\ result[w].should_retry
                = ~( /\ result[w].exc.kind = "WSError"
                     /\ result[w].exc.code \cap {2, 3, 4, 5, 6, 7, 9, 10, 13, 26} # {} )

C9_Witness ==
    \E w \in Workers :
        /\ wpc[w] = "settle"
        /\ result[w].exc = WSError(Some(26))
        /\ ~result[w].success
        /\ ~result[w].should_retry

\* C10: the sink is never called for an entry whose artist or title is
\* missing or whose duration is known and below min_play_time.
C10_InvalidNeverSubmitted ==
    \A id \in Ids :
        (inserted[id].known /\ ~ValidEntry(inserted[id])) => log[id] = << >>

\* C11: a drain cycle fetches at most 50 entries, they are the entries
\* enqueued first (the queue is held in enqueue order), and each attempt is
\* for the entry enqueued before every entry still waiting in the batch.
C11_OldestFirstInBatches ==
    [][\A w \in Workers :
         /\ (wpc[w] = "idle" /\ wpc'[w] = "entry")
              => /\ Len(batch'[w]) <= 50
                 /\ batch'[w] = SubSeq(queue, 1, Min(50, Len(queue)))
         /\ (wpc[w] = "entry" /\ wpc'[w] = "settle")
              => \A i \in 2..Len(batch[w]) : batch[w][1].id < batch[w][i].id]_vars

\* C12: a drain thread that has made the delivery attempt for an entry
\* performs that entry's queue update in its next step whether or not
\* _running is still set, unless a store operation raises: a delivered entry
\* is removed and gets its history record, a Transient failure below
\* max_retries has its retry_count raised, any other failure is removed.  A
\* thread exits only from between two cycles.
C12_NoAbortMidEntry ==
    [][\A w \in Workers :
         /\ wpc'[w] = "dead" => wpc[w] \in {"idle", "dead"}
         /\ (wpc[w] = "settle" /\ << wpc[w], batch[w] >> # << wpc'[w], batch'[w] >>)
              => \/ storeFailures' > storeFailures
                 \/ LET e == Head(batch[w])
                         res == result[w]
                     IN  IF res.success
                         THEN /\ e.id \notin QueueIds(queue')
                              /\ Len(history') = Len(history) + 1
                              /\ history'[Len(history')].entry_id = e.id
                         ELSE IF res.should_retry /\ e.retry_count < max_retries
                         THEN /\ QueueIds(queue') = QueueIds(queue)
                              /\ e.id \in QueueIds(queue)
                                   => RowIn(queue', e.id).retry_count
                                        = RowIn(queue, e.id).retry_count + 1
                         ELSE e.id \notin QueueIds(queue')]_vars

\* Stop was requested between a delivery attempt and its queue update, and
\* the update was made all the same.
C12_Witness ==
    /\ afterStop
    /\ ~running
    /\ history # << >>

\* C13: when stop_scrobble_processor returns, no drain thread is alive.
C13_StopWaitsForWorker ==
    [][(running /\ ~running') => \A w \in Workers : ~Alive(w)']_vars

\* is_duplicate has just returned, without raising, for a cacheable result.
CheckedCacheable ==
    /\ dcheck.op = "is_duplicate"
    /\ dcheck.outcome = "returned"
    /\ Cacheable(dcheck.input)

\* C14: with the suppressor enabled and time_window > 0, an is_duplicate
\* that returns for a successful result with artist and title, in the same
\* second in which a duplicate record of its fingerprint was inserted, is
\* decided by the exact check, before any scan of the history: duplicate,
\* confidence 1.0, time_since_last = now - record.timestamp, the record's
\* artist and title as the matched track, and the result's fingerprint.
C14_ExactHitAfterInsert ==
    \A row \in duplicate_cache :
        (/\ CheckedCacheable
         /\ time_window > 0
         /\ row.fingerprint = create_fingerprint(dcheck.input)
         /\ row.inserted_at = now)
        => /\ dcheck.via = "exact"
           /\ dcheck.value =
                DuplicateCheck(TRUE, 100, Some(now - row.timestamp),
                               Some([artist |-> row.artist,
                                     title |-> row.title]),
                               Some(create_fingerprint(dcheck.input)))

\* The exact hit of a result on a record inserted in this second for another
\* spelling of its artist, while the history holds a similar track.
C14_Witness ==
    /\ CheckedCacheable
    /\ Qualifying(dcheck.input, get_recent_scrobbles(history, RecentLimit),
                  now - time_window) # {}
    /\ \E row \in duplicate_cache :
         /\ row.fingerprint = create_fingerprint(dcheck.input)
         /\ row.inserted_at = now
         /\ row.artist # dcheck.input.artist

\* The similarity of history record i to the result r, in hundredths.
SimilarityTo(r, i) ==
    calculate_similarity(r.artist, r.title, history[i].artist, history[i].title)

\* History record i was scrobbled within the last time_window seconds.
InWindow(i) == history[i].scrobbled_at >= now - time_window

\* No unexpired duplicate record has r's fingerprint and no history record
\* within the window reaches the similarity threshold.
NeverSeen(r) ==
    /\ \A row \in duplicate_cache :
         row.fingerprint = create_fingerprint(r) => row.expires_at <= now
    /\ \A i \in DOMAIN history :
         InWindow(i) => SimilarityTo(r, i) < similarity_threshold

\* C15 as stated: an is_duplicate that returns for a never-seen result
\* returns non-duplicate with the computed fingerprint attached.
C15_NeverSeenHasFingerprint ==
    (/\ dcheck.op = "is_duplicate"
     /\ dcheck.outcome = "returned"
     /\ NeverSeen(dcheck.input))
    => /\ ~dcheck.value.is_duplicate
       /\ dcheck.value.fingerprint = Some(create_fingerprint(dcheck.input))

\* C15, for cacheable results: an is_duplicate that returns for a never-seen
\* result, the suppressor enabled and the result successful with artist and
\* title, returns non-duplicate with confidence 0 and the computed
\* fingerprint attached.
C15_NeverSeenCacheable ==
    (CheckedCacheable /\ NeverSeen(dcheck.input))
    => dcheck.value =
         DuplicateCheck(FALSE, 0, None, None,
                        Some(create_fingerprint(dcheck.input)))

\* A never-seen cacheable result checked while the history holds a similar
\* record older than the window and the cache an expired record of its
\* fingerprint.
C15_Witness ==
    /\ CheckedCacheable
    /\ NeverSeen(dcheck.input)
    /\ \E i \in DOMAIN history :
         ~InWindow(i) /\ SimilarityTo(dcheck.input, i) >= similarity_threshold
    /\ \E row \in duplicate_cache :
         row.fingerprint = create_fingerprint(dcheck.input)

\* The suppressor is disabled, or r is unsuccessful, or its artist or title
\* is empty.
NotCacheable(r) ==
    ~enabled \/ ~r.success \/ r.artist = << >> \/ r.title = << >>

\* C16: an is_duplicate for a result that is not cacheable returns from its
\* guards, in the step that calls it, non-duplicate with confidence 0 and
\* no fingerprint; it reads nothing from the store, so no store failure can
\* reach it, whatever the duplicate cache and the history hold.
C16_NotCacheableNonDuplicate ==
    [][(dcheck'.op = "is_duplicate" /\ NotCacheable(dcheck'.input))
         => /\ dpc = "idle" /\ dpc' = "idle"
            /\ dcheck'.outcome = "returned"
            /\ dcheck'.via = "guard"
            /\ dcheck'.value = DuplicateCheck(FALSE, 0, None, None, None)
            /\ storeFailures' = storeFailures]_vars

\* The check of a result that is not cacheable while an unexpired record of
\* its fingerprint is cached and a history record within the window reaches
\* the threshold.
C16_Witness ==
    /\ dcheck.op = "is_duplicate"
    /\ NotCacheable(dcheck.input)
    /\ \E row \in duplicate_cache :
         /\ row.fingerprint = create_fingerprint(dcheck.input)
         /\ row.expires_at > now
    /\ \E i \in DOMAIN history :
         InWindow(i) /\ SimilarityTo(dcheck.input, i) >= similarity_threshold

\* is_duplicate has just returned from the fuzzy check: a cacheable result
\* with no exact cache hit.
CheckedSimilar == CheckedCacheable /\ dcheck.via = "similar"

\* The records of h within the window that reach the threshold for r.
SimilarInWindow(r, h) ==
    { i \in DOMAIN h :
        /\ h[i].scrobbled_at >= now - time_window
        /\ calculate_similarity(r.artist, r.title, h[i].artist, h[i].title)
             >= similarity_threshold }

C18_FirstQualifyingByRecency ==
    (CheckedSimilar /\ dcheck.value.is_duplicate)
    => \E i \in SimilarInWindow(dcheck.input, history) :
         /\ \A j \in SimilarInWindow(dcheck.input, history) :
              history[j].scrobbled_at <= history[i].scrobbled_at
         /\ dcheck.value =
              DuplicateCheck(TRUE, SimilarityTo(dcheck.input, i),
                             Some(now - history[i].scrobbled_at),
                             Some([artist |-> history[i].artist,
                                   title |-> history[i].title]),
                             Some(create_fingerprint(dcheck.input)))

\* A fuzzy match reported with a lower confidence than the similarity of an
\* older record within the window.
C18_Witness ==
    /\ CheckedSimilar
    /\ dcheck.value.is_duplicate
    /\ \E j \in SimilarInWindow(dcheck.input, history) :
         SimilarityTo(dcheck.input, j) > dcheck.value.confidence

\* C19: duplicate checking fails open: is_duplicate never raises to its
\* caller; when a store operation it uses fails, it returns non-duplicate.
C19_FailsOpen ==
    [][dcheck'.op = "is_duplicate"
         => /\ dcheck'.outcome = "returned"
            /\ storeFailures' > storeFailures => ~dcheck'.value.is_duplicate]_vars

\* The duplicate records of r's fingerprint inserted less than time_window
\* seconds ago.
Unexpired(r) ==
    { row \in duplicate_cache :
        /\ row.fingerprint = create_fingerprint(r)
        /\ now < row.inserted_at + time_window }

\* An add_track that returns True has inserted the record of its result at
\* the current time.
InsertedNow ==
    (dcheck.op = "add_track" /\ dcheck.added)
    => \E row \in duplicate_cache :
         /\ row.fingerprint = create_fingerprint(dcheck.input)
         /\ row.inserted_at = now

\* An is_duplicate that returns for a cacheable result is decided by the
\* exact check if and only if a record of its fingerprint is unexpired.
ExactIffUnexpired ==
    CheckedCacheable
    => (dcheck.via = "exact" <=> Unexpired(dcheck.input) # {})

\* A record that leaves the cache unexpired is replaced by a newer insert of
\* its fingerprint.
LeavesOnlyReplaced ==
    \A row \in duplicate_cache :
        (row \notin duplicate_cache' /\ now < row.inserted_at + time_window)
        => \E newer \in duplicate_cache' :
             /\ newer.fingerprint = row.fingerprint
             /\ newer.inserted_at = now

\* C20: a duplicate record counts only while unexpired.  A record that
\* add_track inserts at time t is matched by the exact check of is_duplicate
\* at every time before t + time_window and at no time from t + time_window
\* on, and it leaves the cache before t + time_window only by being
\* replaced by a newer insert of its fingerprint, so cleanup_expired
\* changes no answer.
C20_AuthoritativeWhileUnexpired ==
    [](InsertedNow /\ ExactIffUnexpired) /\ [][LeavesOnlyReplaced]_vars

\* The exact check passes over a record that add_track inserted time_window
\* seconds ago or earlier and that no cleanup has deleted.
C20_Witness ==
    /\ CheckedCacheable
    /\ dcheck.via = "similar"
    /\ \E row \in duplicate_cache :
         /\ row.fingerprint = create_fingerprint(dcheck.input)
         /\ row.inserted_at > 0
         /\ now >= row.inserted_at + time_window

\* No two duplicate records share a fingerprint.
OnePerFingerprint ==
    \A r1, r2 \in duplicate_cache : r1.fingerprint = r2.fingerprint => r1 = r2

\* An add_track that returns True leaves, as the only record of the
\* fingerprint, the one made of its result, the timestamp it read and the
\* expiry of its insert.
LatestAddTrackStored ==
    (dcheck'.op = "add_track" /\ dcheck'.added)
    => { row \in duplicate_cache' : row.fingerprint = darg.fingerprint }
         = { [fingerprint |-> darg.fingerprint,
              artist |-> darg.result.artist, title |-> darg.result.title,
              timestamp |-> darg.timestamp,
              confidence |-> darg.result.confidence,
              expires_at |-> now + time_window, inserted_at |-> now] }

\* C21: the duplicate cache holds at most one record per fingerprint, and an
\* add_track for a fingerprint that has a record, expired or not, replaces
\* it: artist, title, timestamp, confidence and expiry are the latest
\* add_track's.
C21_OneRecordPerFingerprint ==
    []OnePerFingerprint /\ [][LatestAddTrackStored]_vars

\* An add_track has just replaced an expired record that had another
\* artist spelling and another timestamp.
C21_Witness ==
    /\ dcheck.op = "add_track"
    /\ dcheck.added
    /\ \E old \in replaced :
         /\ old.expires_at <= now
         /\ old.artist # dcheck.input.artist
         /\ \E row \in duplicate_cache :
              /\ row.fingerprint = old.fingerprint
              /\ row.artist = dcheck.input.artist
              /\ row.timestamp # old.timestamp

\* C22: normalize is idempotent: for every string over letters, '&', '+',
\* spaces, tabs, newlines and edge punctuation, normalizing what
\* _normalize_string returned returns it unchanged.
C22_NormalizeIdempotent ==
    \A i \in 2..Len(normalized) : normalized[i] = normalized[1]

\* A string that normalizing changed, by a fold to 'and', by a collapsed run
\* of white space and by stripping, has been normalized twice.
C22_Witness ==
    /\ Len(normalized) = 2
    /\ Len(normalized[1]) > Len(given)
    /\ \E i \in DOMAIN given : given[i] = "\t"
    /\ \E i \in DOMAIN given : given[i] = "."

\* C23: two results of the same duration whose artist, title and album
\* differ only by letter case, by '&' or '+' for 'and', by runs of spaces,
\* tabs and newlines for a space, or by leading and trailing punctuation and
\* white space have equal fingerprints.
C23_SpellingsShareFingerprint ==
    prints # << >> => prints[1] = prints[2]

\* No two recognitions of one fingerprint answered less than time_window
\* apart were both handed to queue_scrobble.
OneEnqueuePerWindow ==
    \A i, j \in DOMAIN pipeline.enqueued :
        (/\ i < j
         /\ pipeline.enqueued[i].fingerprint = pipeline.enqueued[j].fingerprint)
        => pipeline.enqueued[j].at >= pipeline.enqueued[i].at + time_window

Executed ==
    { store.returned[i] : i \in DOMAIN store.returned }
    \cup { store.op[t] : t \in { u \in Threads : store.pc[u] = "executed" } }

\* The ids add_to_scrobble_queue has assigned, and those whose row
\* remove_from_scrobble_queue has deleted.
AddedIds ==
    { op.value[1] : op \in { o \in Executed :
        o.name = "add_to_scrobble_queue" /\ o.raised = FALSE } }
RemovedIds ==
    { op.id : op \in { o \in Executed :
        o.name = "remove_from_scrobble_queue" /\ o.value = << 1 >> } }

\* The add_to_scrobble_queue calls that returned an id.
AddsReturned ==
    { i \in DOMAIN store.returned :
        /\ store.returned[i].name = "add_to_scrobble_queue"
        /\ ~store.returned[i].raised }

NoTwoInside == Cardinality(Inside) <= 1

OneInsidePerManager ==
    \A m \in Managers :
        /\ Cardinality({ t \in Inside : store.op[t].via = m }) <= 1
        /\ \A t \in Inside : store.op[t].via = m => store.lock[m] = t

\* Every add got an id of its own, and the table holds the rows added and
\* not removed.
AddsAllStored ==
    /\ Cardinality({ store.returned[i].value[1] : i \in AddsReturned })
         = Cardinality(AddsReturned)
    /\ AddedIds \cap { id \in Ids : inserted[id] # NoRow } = {}
    /\ QueueIds(queue)
         = (AddedIds \cup { id \in Ids : inserted[id] # NoRow }) \ RemovedIds
    /\ Len(queue) = Cardinality(QueueIds(queue))

\* Every call returns.
AllReturn ==
    \A t \in Threads : (store.pc[t] # "idle") ~> (store.pc[t] = "idle")

Active == segmenter.opened - segmenter.closed

OneActive == Active = (IF segmenter.is_recording THEN 1 ELSE 0)

\* A step from Recording to Recording opens nothing and keeps the samples
\* accumulated; a step that opens a session starts in Quiet.
KeepsSession ==
    /\ (segmenter.is_recording /\ segmenter'.is_recording)
         => /\ segmenter'.opened = segmenter.opened
            /\ Len(segmenter'.current_recording) >= Len(segmenter.current_recording)
            /\ SubSeq(segmenter'.current_recording, 1, Len(segmenter.current_recording))
                 = segmenter.current_recording
    /\ segmenter'.opened # segmenter.opened => ~segmenter.is_recording

\* C26: at most one RecordingSession is active in every reachable state: a
\* session is opened only from Quiet, and a start request while Recording
\* neither opens a second session nor resets the samples accumulated.
C26_OneActiveSession == []OneActive /\ [][KeepsSession]_vars

\* A start request was made in Recording, with samples accumulated.
C26_Witness ==
    /\ segmenter.requests = 1
    /\ segmenter.is_recording
    /\ Len(segmenter.current_recording) >= 2
    /\ segmenter.opened = 1

\* A chunk ends the session: the step of _finish_recording.
Finalizes ==
    /\ segmenter.is_recording
    /\ segmenter'.closed = segmenter.closed + 1
    /\ ~segmenter'.stopped

\* The session ended by this step is dropped: nothing is handed on, the
\* buffer is empty and the segmenter is in Quiet.
Dropped ==
    /\ segmenter'.emitted = segmenter.emitted
    /\ segmenter'.current_recording = << >>
    /\ ~segmenter'.is_recording
    /\ segmenter'.event[1] = "discarded"

\* The samples accumulated when this step ends the session: the chunk of the
\* step is appended before.
ShortAtFinalize ==
    Duration(segmenter.current_recording) + ChunkLen < min_track_length

ShortIsDropped == (Finalizes /\ ShortAtFinalize) => Dropped

AllEmittedLongEnough ==
    \A i \in DOMAIN segmenter.emitted :
        Duration(segmenter.emitted[i].samples) >= min_track_length

\* C27: a session whose accumulated duration at finalize is below the
\* minimum track length never reaches the recognizer: it is discarded, its
\* buffer cleared, the segmenter returns to Quiet and no track-detected
\* callback is made, whether silence or the maximum duration ended it.
C27_ShortNeverEmitted == []AllEmittedLongEnough /\ [][ShortIsDropped]_vars

\* A second session has ended, this one by the maximum duration with fewer
\* samples than the minimum, and nothing has been handed on.
C27_Witness ==
    /\ segmenter.event = << "discarded", "max" >>
    /\ segmenter.closed = 2
    /\ segmenter.emitted = << >>
    /\ ~segmenter.stopped

\* The time the session has been open, by the chunk processed last.
Open == segmenter.clock - segmenter.music_start_time

UnderMaxWhileRecording ==
    segmenter.is_recording => Open < max_recording_duration

\* The maximum duration ends a session at the first chunk read when it has
\* been reached: within one chunk interval of it.
ForcedInTime ==
    (Finalizes /\ segmenter'.event[2] = "max")
        => /\ segmenter'.clock - segmenter.music_start_time
                >= max_recording_duration
           /\ segmenter'.clock - segmenter.music_start_time
                < max_recording_duration + segmenter'.gap

\* A chunk read in Recording when the maximum has been reached ends the
\* session, whatever the chunk.
ForcedWhenReached ==
    (/\ segmenter.is_recording
     /\ Len(segmenter'.fed) > Len(segmenter.fed)
     /\ segmenter'.clock - segmenter.music_start_time >= max_recording_duration)
        => (Finalizes /\ segmenter'.event[2] = "max")

\* C28: a recording session is force-finalized as soon as the time since it
\* started reaches maxRecordingDuration, even if every chunk is voiced; no
\* session stays in Recording longer than maxRecordingDuration plus one
\* chunk.
C28_ForcedAtMax ==
    []UnderMaxWhileRecording /\ [][ForcedInTime]_vars /\ [][ForcedWhenReached]_vars

\* A session of voiced chunks only, read back to back, has been ended by the
\* maximum duration and handed on.
C28_Witness ==
    /\ segmenter.event = << "emitted", "max" >>
    /\ segmenter.gap = ChunkLen
    /\ Len(segmenter.emitted) = 1
    /\ \A i \in DOMAIN segmenter.emitted[1].samples :
         segmenter.emitted[1].samples[i] = "voiced"
    /\ \A i \in DOMAIN segmenter.fed :
         /\ segmenter.fed[i].kind = "voiced"
         /\ segmenter.fed[i].at = i * ChunkLen

\* The chunks fed so far are voiced up to the a-th, silent up to the b-th
\* and voiced after it.
VoicedSilentVoiced(a, b) ==
    \A i \in DOMAIN segmenter.fed :
        segmenter.fed[i].kind = (IF i <= a \/ i > b THEN "voiced" ELSE "silent")

\* The silence after the a-th chunk stays under silence_duration.
ShortSilence(a, b) ==
    \A i \in (a + 1)..b :
        segmenter.fed[i].at - segmenter.fed[a].at < silence_duration

\* The chunks fed so far span less than the maximum recording duration.
SpanUnderMax ==
    segmenter.fed[Len(segmenter.fed)].at - segmenter.fed[1].at
        < max_recording_duration

\* One session, still open, holds every chunk fed; none was ended.
OneSessionHoldsAll ==
    /\ segmenter.is_recording
    /\ segmenter.current_recording
         = [i \in DOMAIN segmenter.fed |-> segmenter.fed[i].kind]
    /\ segmenter.opened = 1
    /\ segmenter.closed = 0
    /\ segmenter.emitted = << >>

ShortSilenceKeepsSession ==
    (/\ ~segmenter.stopped
     /\ segmenter.fed # << >>
     /\ SpanUnderMax
     /\ \E a \in DOMAIN segmenter.fed : \E b \in a..Len(segmenter.fed) :
           VoicedSilentVoiced(a, b) /\ ShortSilence(a, b))
        => OneSessionHoldsAll

\* A silent chunk read in Recording before the silence is confirmed and
\* before the maximum is reached is appended, and the session goes on.
SilentChunkAppended ==
    (/\ segmenter.is_recording
     /\ Len(segmenter'.fed) > Len(segmenter.fed)
     /\ segmenter'.fed[Len(segmenter'.fed)].kind = "silent"
     /\ segmenter'.clock - segmenter.last_voiced_time < silence_duration
     /\ segmenter'.clock - segmenter.music_start_time < max_recording_duration)
        => /\ segmenter'.is_recording
           /\ segmenter'.current_recording
                = Append(segmenter.current_recording, "silent")
           /\ segmenter'.closed = segmenter.closed

FirstConfirmedAt(a, k) ==
    /\ segmenter.fed[k].at - segmenter.fed[a].at >= silence_duration
    /\ \A j \in (a + 1)..(k - 1) :
         segmenter.fed[j].at - segmenter.fed[a].at < silence_duration
    /\ segmenter.fed[k].at - segmenter.fed[1].at < max_recording_duration

\* One recording has been handed on, at the k-th chunk, holding the chunks
\* up to it; the segmenter is in Quiet and no other session was opened.
OneEmittedAt(k) ==
    /\ Len(segmenter.emitted) = 1
    /\ segmenter.emitted[1].at = segmenter.fed[k].at
    /\ segmenter.emitted[1].cause = "silence"
    /\ segmenter.emitted[1].samples
         = [i \in 1..k |-> segmenter.fed[i].kind]
    /\ ~segmenter.is_recording
    /\ segmenter.opened = 1
    /\ segmenter.closed = 1

VoicedThenSilenceEmitsOnce ==
    \A a \in DOMAIN segmenter.fed : \A k \in (a + 1)..Len(segmenter.fed) :
        (/\ ~segmenter.stopped
         /\ VoicedSilentVoiced(a, Len(segmenter.fed))
         /\ a * ChunkLen >= min_track_length
         /\ FirstConfirmedAt(a, k))
            => OneEmittedAt(k)

\* C30: for voiced chunks lasting at least the minimum track length followed
\* by silent chunks lasting at least silenceDuration, exactly one finalized
\* recording is handed to the recognizer: it is finalized when the time
\* since the last voiced chunk first reaches silenceDuration, and further
\* silent chunks cause no second emission.
C30_OneRecordingPerTrack == VoicedThenSilenceEmitsOnce

\* Four voiced chunks and three silent ones have been fed; the recording was
\* handed on before the last silent chunk.
C30_Witness ==
    /\ Len(segmenter.fed) = 7
    /\ VoicedSilentVoiced(4, 7)
    /\ ~segmenter.stopped
    /\ Len(segmenter.emitted) = 1
    /\ segmenter.emitted[1].at < segmenter.fed[7].at
    /\ segmenter.emitted[1].cause = "silence"

\* A voiced chunk is read in Quiet.
VoicedInQuiet ==
    /\ ~segmenter.is_recording
    /\ Len(segmenter'.fed) > Len(segmenter.fed)
    /\ segmenter'.fed[Len(segmenter'.fed)].kind = "voiced"

\* The chunk of this step is read sooner than the debounce interval after
\* the end of the previous track.
TooSoon ==
    \E e \in segmenter.last_track_end_time : segmenter'.clock - e < debounce

\* The voiced chunk opens a session that holds it; or it is ignored.
OpensSession ==
    /\ segmenter'.is_recording
    /\ segmenter'.opened = segmenter.opened + 1
    /\ segmenter'.current_recording = << "voiced" >>
    /\ segmenter'.music_start_time = segmenter'.clock
StaysQuiet ==
    /\ ~segmenter'.is_recording
    /\ segmenter'.opened = segmenter.opened
    /\ segmenter'.current_recording = << >>

Debounced == VoicedInQuiet => (IF TooSoon THEN StaysQuiet ELSE OpensSession)

\* The end time kept is that of the step, for every session a chunk ends.
EndKeptOnEveryFinalize ==
    Finalizes => segmenter'.last_track_end_time = Some(segmenter'.clock)

\* The end time kept is that of the recording handed on last.
EndKeptOnHandOver ==
    segmenter.last_track_end_time =
        (IF segmenter.emitted = << >> THEN None
         ELSE Some(segmenter.emitted[Len(segmenter.emitted)].at))

StopDiscards ==
    (~segmenter.stopped /\ segmenter'.stopped)
        => /\ segmenter'.emitted = segmenter.emitted
           /\ ~segmenter'.is_recording
           /\ segmenter'.current_recording = << >>

\* Once stopped, nothing more is handed on.
NothingAfterStop == segmenter.stopped => segmenter'.emitted = segmenter.emitted

StoppedIsQuiet ==
    segmenter.stopped => (~segmenter.is_recording /\ Active = 0)

TurnEnds(w) == wpc[w] = "settle" /\ wpc'[w] # "settle"

\* The store call of the except clause raised in this step, after the store
\* call of the branch did.
ExceptClauseRaised == storeFailures' = storeFailures + 2

\* The turn goes on to the next entry of the batch, if there is one.
GoesOn(w) ==
    /\ batch'[w] = Tail(batch[w])
    /\ wpc'[w] = (IF Tail(batch[w]) = << >> THEN "idle" ELSE "entry")

\* The cycle ends, and the thread is back at the test of its while loop.
CycleEnds(w) == batch'[w] = << >> /\ wpc'[w] = "idle"

BatchGoesOn == \A w \in Workers : (TurnEnds(w) /\ running) => GoesOn(w)

BatchGoesOnUnlessExceptRaises ==
    \A w \in Workers :
        (TurnEnds(w) /\ running)
            => (IF ExceptClauseRaised THEN CycleEnds(w) ELSE GoesOn(w))

\* No failure ends the drain thread.
LoopGoesOn == \A w \in Workers : running => wpc[w] # "dead"

\* C33: a collaborator failure while processing one queue entry, the store
\* operation recording that failure included, does not stop the drain: the
\* remaining entries of the batch are attempted in the same cycle, and the
\* loop goes on to later cycles.
C33_FailureDoesNotStopDrain == []LoopGoesOn /\ [][BatchGoesOn]_vars

\* C33, amended: the same, except that a failure of the store operation of
\* the except clause ends the cycle; the loop still goes on.
C33_FailureDoesNotStopLoop ==
    []LoopGoesOn /\ [][BatchGoesOnUnlessExceptRaises]_vars

\* A store operation raised for the first row, the sink having been called,
\* and the second row of the batch is about to be attempted.
C33_Witness ==
    /\ storeFailures = 1
    /\ wpc["w1"] = "entry"
    /\ Len(batch["w1"]) = 1
    /\ batch["w1"][1].id = 2
    /\ log[1] # << >>
    /\ log[2] = << >>

\* The row this step appended carries the recognition p was called with,
\* with retry_count 0.
AddsOneEntry(p) ==
    /\ Len(queue') = Len(queue) + 1
    /\ SubSeq(queue', 1, Len(queue)) = queue
    /\ queue'[Len(queue')].retry_count = 0
    /\ queue'[Len(queue')].artist = parg[p].artist
    /\ queue'[Len(queue')].title = parg[p].title
    /\ queue'[Len(queue')].album = parg[p].album
    /\ queue'[Len(queue')].duration = parg[p].duration

\* What queue_scrobble returns in this step, if it returns: True with one
\* entry added, or False with the queue as it was; False when the insert
\* raised.
ReturnsTrueOrFalse(p) ==
    (pret' # pret /\ pret'.caller = p)
        => /\ pret'.value \in { "True", "False" }
           /\ pret'.value = "True" => AddsOneEntry(p)
           /\ pret'.value = "False" => queue' = queue
           /\ storeFailures' # storeFailures => pret'.value = "False"

\* A call that has passed the capacity check returns at its insert.
InsertReturns(p) ==
    (ppc[p] = "insert" /\ ppc'[p] = "idle") => (pret' # pret /\ pret'.caller = p)

\* C34: queue_scrobble returns False and leaves the queue unchanged when the
\* result is unsuccessful, lacks an artist or a title, or the store insert
\* fails; otherwise, with the queue below capacity, it adds exactly one
\* entry with retry_count 0 carrying the result's artist, title, album and
\* duration, and returns True.
C34_QueueScrobbleOutcome ==
    [][\A p \in Producers : ReturnsTrueOrFalse(p) /\ InsertReturns(p)]_vars

\* A step of is_duplicate: it returns, goes on to the scan, or leaves it.
IsDuplicateStep ==
    \/ dcheck' # dcheck /\ dcheck'.op = "is_duplicate"
    \/ dpc = "idle" /\ dpc' = "similar"
    \/ dpc = "similar" /\ dpc' = "idle"

ReadOnly ==
    IsDuplicateStep => UNCHANGED << duplicate_cache, queue, history >>

\* A row enters the cache, or takes the place of one, only where add_track
\* stores it.
OnlyAddTrackWrites ==
    duplicate_cache' \ duplicate_cache # {}
        => dpc = "store" /\ dcheck'.op = "add_track" /\ dcheck'.added

\* An exact check reports a duplicate only for a fingerprint the cache
\* holds.
ExactHitIsCached ==
    (dcheck.op = "is_duplicate" /\ dcheck.via = "exact"
       /\ dcheck.value.is_duplicate)
        => \E row \in duplicate_cache :
             row.fingerprint = create_fingerprint(dcheck.input)

\* C35: is_duplicate is read-only: for every input and outcome it leaves
\* the duplicate cache, the scrobble queue and the history unchanged; a
\* duplicate record is created or refreshed only by add_track, so a track
\* that is checked but never added is not reported as an exact duplicate
\* by a later check.
C35_IsDuplicateReadOnly ==
    [][ReadOnly /\ OnlyAddTrackWrites]_vars /\ []ExactHitIsCached

\* A check has gone through the exact lookup and the scan and returned
\* while the cache holds a row of another track only.
C35_Witness ==
    /\ dcheck.op = "is_duplicate"
    /\ dcheck.outcome = "returned"
    /\ dcheck.via = "similar"
    /\ ~dcheck.value.is_duplicate
    /\ duplicate_cache # {}
    /\ \A row \in duplicate_cache :
         row.fingerprint # create_fingerprint(dcheck.input)

\* The bucket of a duration that is there: "round(duration / 5) * 5".
Bucket(duration) == DurationRounded(CHOOSE d \in duration : TRUE)

\* Both durations absent, or both there and in one bucket.
SameBucket(a, b) ==
    \/ a = None /\ b = None
    \/ a # None /\ b # None /\ Bucket(a) = Bucket(b)

SameNormalized(r1, r2) ==
    /\ normalize_string(r1.artist) = normalize_string(r2.artist)
    /\ normalize_string(r1.title) = normalize_string(r2.title)
    /\ normalize_string(r1.album) = normalize_string(r2.album)

\* C36: two results get the same fingerprint exactly when their normalized
\* artist, title and album are equal and their durations are both absent or
\* both present in the same 5-second bucket; a result with a duration and
\* one without never share a fingerprint, and a different split of the same
\* characters between the fields gives a different fingerprint.
C36_FingerprintSeparates ==
    prints # << >>
        => (prints[1] = prints[2]
              <=> (SameNormalized(texts.base, texts.variant)
                     /\ SameBucket(texts.base.duration, texts.variant.duration)))

\* C37: clear_queue empties the queue: after it returns, with no
\* concurrent enqueue, the queue holds no entries for any queue size the
\* configuration allows, and the returned count equals the number of
\* entries that were removed.
C37_ClearQueueEmpties ==
    clearing.pc = "returned"
        => queue = << >> /\ clearing.count = clearing.removed

\* The drain threads alive.
AliveWorkers == { w \in Workers : Alive(w) }

\* A thread is started only by a start that finds _running False and the
\* scrobbler available; no other start changes anything of the processor.
StartsOnlyWhenStopped ==
    ((\E w \in Workers : ~Alive(w) /\ Alive(w)') \/ (~running /\ running'))
        => (~running /\ available)

\* C38: at any time at most one drain worker is running, for any sequence
\* of start_scrobble_processor and stop_scrobble_processor calls, stop
\* followed by start while the previous worker has not finished included;
\* start while running is a no-op, and start while unavailable leaves the
\* processor not running.
C38_AtMostOneWorker ==
    [](Cardinality(AliveWorkers) <= 1) /\ [][StartsOnlyWhenStopped]_vars

\* The sink calls for id that the sink accepted.
Accepted(id) == { i \in DOMAIN log[id] : log[id][i] = "ok" }

\* The history records of the queue entry id.
RecordsOf(id) == { i \in DOMAIN history : history[i].entry_id = id }

\* C39: no queue entry is accepted by the sink more than once: an entry
\* that the sink has accepted is never submitted again, whatever drain
\* cycles, stops and starts and store failures follow, and produces at most
\* one history record.
C39_AcceptedOnce ==
    \A id \in Ids :
        /\ \A i \in Accepted(id) : i = Len(log[id])
        /\ Cardinality(RecordsOf(id)) <= 1

\* Every entry queued while the drain thread runs leaves the queue.
AllLeave ==
    \A id \in Ids :
        (Alive("w1") /\ id \in QueueIds(queue)) ~> (id \notin QueueIds(queue))

\* From some point on the store raises no more than storeBudget times.
StoreErrorsEnd == <>[][storeFailures' >= storeFailures]_storeFailures

\* C40 as stated: every queued entry eventually leaves the queue when the
\* scrobbler is available and the drain worker keeps running under fair
\* scheduling, whatever mix of sink results and store errors occurs,
\* behind 50 or more older failing entries and with a retry_count that has
\* reached max_retries included.
C40_AllLeave == AllLeave

\* C40, amended: the same, provided the store errors come to an end.
C40_AllLeaveOnceStoreWorks == StoreErrorsEnd => AllLeave

\* The entry behind BatchLimit failing entries has left the queue, after
\* its own delivery failed max_retries + 1 times.
C40_Witness ==
    /\ storeBudget = 0
    /\ Alive("w1")
    /\ queue = << >>
    /\ Len(log[BatchLimit + 1]) = max_retries + 1

====
